---------------------------- MODULE Spec2Model ----------------------------
(***************************************************************************)
(* A model of mikkyang/id3-go: the ID3v2 integer codec, the text codec's   *)
(* terminator scan, and the frame / tag size bookkeeping.                  *)
(*                                                                         *)
(* Three specifications share the module:                                  *)
(*   SpecInt   the integer codec (synchbytes/normbytes/synchint/normint)   *)
(*   SpecScan  afterNullIndex over byte slices                             *)
(*   Spec      a tag, its frames and their mutators                        *)
(* Each specification keeps the variables of the others at an idle value.  *)
(***************************************************************************)
EXTENDS Integers, Sequences, FiniteSets, TLC

VARIABLES
    \* ---- integer codec (SpecInt)
    cpc,        \* "idle" | "start" | "raw" | "encoded" | "decoded"
    cn,         \* the caller's integer, as 16-bit halves [hi, lo]: n = hi*2^16 + lo
    cbuf,       \* the byte slice last produced by intbytes / handed to byteint
    encBase,    \* bits per byte of the last encode (0: none)
    decBase,    \* bits per byte of the last decode (0: none)
    cval,       \* the int32 byteint returned
    cerr,       \* whether byteint returned an error
    \* ---- terminator scan (SpecScan)
    spc,        \* "idle" | "start" | "done"
    sdata,      \* the byte slice handed to afterNullIndex
    senc,       \* the encoding index handed to afterNullIndex
    sres,       \* what afterNullIndex returned
    \* ---- encoding table lookup (SpecEnc)
    epc,        \* "idle" | "start" | "done"
    eidx,       \* the byte handed to encodingForIndex
    eres,       \* what encodingForIndex returned, or Panic
    \* ---- tag and frames (Spec)
    head,            \* Tag.Header: [version, revision, flags, size]
    frameHeaderSize, \* Tag.frameHeaderSize
    padding,         \* Tag.padding
    frames,          \* Tag.frames: identifier -> list of frames (<< >>: no entry)
    last,            \* the last call on the tag or a frame: [op, err, ret]
    hist,            \* progress of a SetEncoding("UTF-16"), SetEncoding("ISO-8859-1") pair
    \* ---- the tagged file (SpecFile)
    fpc,             \* "idle" | "closed" | "open" | "nil" | "panic" | "saved"
    fdata,           \* the bytes of the file on disk
    fdata0,          \* the bytes of the file when it was last opened
    fpos,            \* the bytes the reader had consumed when NewTag ended
    originalSize,    \* File.originalSize
    fopens,          \* how many times the file was opened
    finput,          \* what the file was made as (see FileInputs)
    \* ---- shiftBytesBack step by step (SpecShift)
    shpc,            \* "idle" | "start" | "read" | "write" | "done"
    shfile,          \* the bytes of the file
    shargs,          \* [start, end, offset], the arguments
    wrBuf,           \* wrBuf
    rdBuf,           \* rdBuf
    rn,              \* rn
    rdn,             \* n
    rdOffset,        \* rdOffset
    wrOffset,        \* wrOffset
    shread,          \* the file positions read so far
    shwrote,         \* the file positions the last WriteAt wrote
    \* ---- the payload reader (SpecReader)
    rdr,             \* the reader: [data, index]
    rdrLast,         \* the last call on it: [op, n, index, b, err]
    \* ---- the payload writer (SpecWriter)
    wtr,             \* the writer: [out, cap, err] (see newWriter)
    wtrLast,         \* the last call on it: [op, len, space, n, err]
    \* ---- the parse constructors (SpecParse)
    ppc,             \* "idle" | "start" | "done"
    pkind,           \* the constructor: "desc" | "unsynch" | "image"
    pdata,           \* the payload handed to it
    pres,            \* what it returned
    \* ---- the short frame header (SpecV2)
    v2pc,            \* "idle" | "start" | "written" | "read"
    v2frame,         \* the frame
    v2bytes,         \* what V2Bytes returned
    v2res            \* what NewV2Frame returned

intVars  == <<cpc, cn, cbuf, encBase, decBase, cval, cerr>>
scanVars == <<spc, sdata, senc, sres>>
encVars  == <<epc, eidx, eres>>
tagVars  == <<head, frameHeaderSize, padding, frames, last, hist>>
fileVars == <<fpc, fdata, fdata0, fpos, originalSize, fopens, finput>>
readerVars == <<rdr, rdrLast>>
writerVars == <<wtr, wtrLast>>
parseVars == <<ppc, pkind, pdata, pres>>
v2Vars == <<v2pc, v2frame, v2bytes, v2res>>
codecVars == <<readerVars, writerVars, parseVars, v2Vars>>
shiftVars == <<shpc, shfile, shargs, wrBuf, rdBuf, rn, rdn, rdOffset, wrOffset, shread, shwrote>>
vars     == <<intVars, scanVars, encVars, tagVars, fileVars, shiftVars, codecVars>>

---------------------------------------------------------------------------
(* Program constants (src/v2/util.go).                                     *)
BytesPerInt == 4
SynchByteLength == 7
NormByteLength == 8
NativeEncoding == 3
UTF16NullLength == 2

\* EncodingMap, 0-based in the source, as a function on 0..3.
EncodingMap ==
    [i \in 0..3 |-> CASE i = 0 -> "ISO-8859-1"
                      [] i = 1 -> "UTF-16"
                      [] i = 2 -> "UTF-16BE"
                      [] i = 3 -> "UTF-8"]

---------------------------------------------------------------------------
(* 32-bit signed arithmetic.  Every intermediate value stays inside the    *)
(* int32 range, so the shifts are written on the bits that survive.        *)

Pow2(k) == 2^k

MinInt32 == (-Pow2(30)) - Pow2(30)
MaxInt32 == (Pow2(30) - 1) + Pow2(30)

\* int32(n) for a caller's integer 0 <= n < 2^32 given as 16-bit halves.
ToInt32(h) ==
    (IF h.hi >= Pow2(15) THEN h.hi - Pow2(16) ELSE h.hi) * Pow2(16) + h.lo

\* i << k in int32: the low 32-k bits of i move up, the rest is lost.
Shl32(i, k) ==
    LET u == i % Pow2(32 - k)
    IN  IF u >= Pow2(31 - k) THEN (u - Pow2(32 - k)) * Pow2(k) ELSE u * Pow2(k)

\* i >> k in int32: arithmetic shift.
Shr32(i, k) == i \div Pow2(k)

\* a | b on two bytes.
RECURSIVE OrBits(_, _, _)
OrBits(a, b, k) ==
    IF k = 0 THEN 0
    ELSE (IF (a % 2 = 1) \/ (b % 2 = 1) THEN 1 ELSE 0)
         + 2 * OrBits(a \div 2, b \div 2, k - 1)

\* i | int32(b) for an int32 i and a byte b.
Or32(i, b) == (i - (i % Pow2(8))) + OrBits(i % Pow2(8), b, 8)

\* n & mask for mask = 2^base - 1.
AndMask(n, base) == n % Pow2(base)

---------------------------------------------------------------------------
(* byteint / intbytes (src/v2/util.go:39-85).                              *)

\* The loop of byteint over buf[k..], with i the value folded so far.
RECURSIVE byteintLoop(_, _, _, _)
byteintLoop(buf, base, k, i) ==
    IF k > Len(buf) THEN [i |-> i, err |-> FALSE]
    ELSE IF base < NormByteLength /\ buf[k] >= Pow2(base)
         THEN [i |-> i, err |-> TRUE]
         ELSE byteintLoop(buf, base, k + 1, Or32(Shl32(i, base), buf[k]))

\* A byteint that shifts by 8 whatever the base.
byteintShift8(buf, base) ==
    IF Len(buf) > BytesPerInt THEN [i |-> 0, err |-> TRUE]
    ELSE byteintLoop(buf, NormByteLength, 1, 0)

\* A byteint that shifts by 7 whatever the base.
byteintShift7(buf, base) ==
    IF Len(buf) > BytesPerInt THEN [i |-> 0, err |-> TRUE]
    ELSE byteintLoop(buf, SynchByteLength, 1, 0)

\* A byteint that checks the bytes against 2^base for every base but
\* compares with > instead of >=.
RECURSIVE byteintLoopGt(_, _, _, _)
byteintLoopGt(buf, base, k, i) ==
    IF k > Len(buf) THEN [i |-> i, err |-> FALSE]
    ELSE IF base < NormByteLength /\ buf[k] > Pow2(base)
         THEN [i |-> i, err |-> TRUE]
         ELSE byteintLoopGt(buf, base, k + 1, Or32(Shl32(i, base), buf[k]))

byteintGt(buf, base) ==
    IF Len(buf) > BytesPerInt THEN [i |-> 0, err |-> TRUE]
    ELSE byteintLoopGt(buf, base, 1, 0)

byteint(buf, base) ==
    IF Len(buf) > BytesPerInt THEN [i |-> 0, err |-> TRUE]
    ELSE byteintLoop(buf, base, 1, 0)

synchint(buf) == byteint(buf, SynchByteLength)

normint(buf) == byteint(buf, NormByteLength)

\* The loop of intbytes: bytes[len-i-1] = byte(n & mask); n >>= base.
RECURSIVE intbytesLoop(_, _, _)
intbytesLoop(n, base, left) ==
    IF left = 0 THEN << >>
    ELSE Append(intbytesLoop(Shr32(n, base), base, left - 1), AndMask(n, base))

\* An intbytes whose mask is 2^base - 1 but which always shifts by 8.
RECURSIVE intbytesLoopShift8(_, _, _)
intbytesLoopShift8(n, base, left) ==
    IF left = 0 THEN << >>
    ELSE Append(intbytesLoopShift8(Shr32(n, NormByteLength), base, left - 1),
                AndMask(n, base))

intbytesShift8(n, base) == intbytesLoopShift8(n, base, BytesPerInt)

intbytes(n, base) == intbytesLoop(n, base, BytesPerInt)

synchbytes(n) == intbytes(n, SynchByteLength)

normbytes(n) == intbytes(n, NormByteLength)

---------------------------------------------------------------------------
(* SpecInt: the caller encodes an integer and decodes the bytes, or decodes *)
(* a byte slice of its own.                                                *)

\* 16-bit halves the caller's integers are drawn from.
HalfSamples == {0, 1, 127, 128, 4095, 4096, 32767, 32768, 65535}

IntInputs == [hi : HalfSamples, lo : HalfSamples]

\* Byte values a raw slice is drawn from.
ByteSamples == {0, 1, 127, 128, 255}

RawInputs ==
    [1..4 -> ByteSamples] \cup [1..3 -> {0, 127, 128}] \cup [1..5 -> {1, 128}]

NoInt == [hi |-> 0, lo |-> 0]

IntIdle ==
    /\ cpc = "idle" /\ cn = NoInt /\ cbuf = << >>
    /\ encBase = 0 /\ decBase = 0 /\ cval = 0 /\ cerr = FALSE

ScanIdle ==
    /\ spc = "idle" /\ sdata = << >> /\ senc = 0 /\ sres = 0

EncIdle ==
    /\ epc = "idle" /\ eidx = 0 /\ eres = ""

FileIdle ==
    /\ fpc = "idle" /\ fdata = << >> /\ fdata0 = << >>
    /\ fpos = 0 /\ originalSize = 0 /\ fopens = 0 /\ finput = ""

ReaderIdle ==
    /\ rdr = [data |-> << >>, index |-> 0]
    /\ rdrLast = [op |-> "idle", n |-> 0, index |-> 0, b |-> << >>, err |-> FALSE]

WriterIdle ==
    /\ wtr = [out |-> << >>, cap |-> 0, err |-> FALSE]
    /\ wtrLast = [op |-> "idle", len |-> 0, space |-> 0, n |-> 0, err |-> FALSE]

ParseIdle == ppc = "idle" /\ pkind = "" /\ pdata = << >> /\ pres = ""

V2Idle == v2pc = "idle" /\ v2frame = "" /\ v2bytes = << >> /\ v2res = ""

CodecIdle == ReaderIdle /\ WriterIdle /\ ParseIdle /\ V2Idle

ShiftIdle ==
    /\ shpc = "idle" /\ shfile = << >> /\ shargs = [start |-> 0, end |-> 0, offset |-> 0]
    /\ wrBuf = << >> /\ rdBuf = << >> /\ rn = 0 /\ rdn = 0
    /\ rdOffset = 0 /\ wrOffset = 0 /\ shread = {} /\ shwrote = {}

TagIdle ==
    /\ head = [version |-> 0, revision |-> 0, flags |-> 0, size |-> 0]
    /\ frameHeaderSize = 0 /\ padding = 0 /\ frames = << >>
    /\ last = [op |-> "idle", err |-> FALSE, ret |-> << >>]
    /\ hist = [phase |-> 0, id |-> "", k |-> 0, size0 |-> 0, text0 |-> << >>, enc1 |-> 0]

InitInt ==
    /\ \/ /\ cpc = "start" /\ cn \in IntInputs /\ cbuf = << >>
       \/ /\ cpc = "raw" /\ cn = NoInt /\ cbuf \in RawInputs
    /\ encBase = 0 /\ decBase = 0 /\ cval = 0 /\ cerr = FALSE
    /\ ScanIdle
    /\ EncIdle
    /\ TagIdle
    /\ FileIdle
    /\ ShiftIdle
    /\ CodecIdle

Synchbytes ==
    /\ cpc = "start"
    /\ cbuf' = synchbytes(ToInt32(cn))
    /\ encBase' = SynchByteLength
    /\ cpc' = "encoded"
    /\ UNCHANGED <<cn, decBase, cval, cerr>>

Normbytes ==
    /\ cpc = "start"
    /\ cbuf' = normbytes(ToInt32(cn))
    /\ encBase' = NormByteLength
    /\ cpc' = "encoded"
    /\ UNCHANGED <<cn, decBase, cval, cerr>>

Synchint ==
    /\ cpc \in {"raw", "encoded"}
    /\ LET r == synchint(cbuf)
       IN  cval' = r.i /\ cerr' = r.err
    /\ decBase' = SynchByteLength
    /\ cpc' = "decoded"
    /\ UNCHANGED <<cn, cbuf, encBase>>

Normint ==
    /\ cpc \in {"raw", "encoded"}
    /\ LET r == normint(cbuf)
       IN  cval' = r.i /\ cerr' = r.err
    /\ decBase' = NormByteLength
    /\ cpc' = "decoded"
    /\ UNCHANGED <<cn, cbuf, encBase>>

NextInt ==
    \/ Synchbytes /\ UNCHANGED <<scanVars, encVars, tagVars, fileVars, shiftVars, codecVars>>
    \/ Normbytes /\ UNCHANGED <<scanVars, encVars, tagVars, fileVars, shiftVars, codecVars>>
    \/ Synchint /\ UNCHANGED <<scanVars, encVars, tagVars, fileVars, shiftVars, codecVars>>
    \/ Normint /\ UNCHANGED <<scanVars, encVars, tagVars, fileVars, shiftVars, codecVars>>

SpecInt == InitInt /\ [][NextInt]_vars

---------------------------------------------------------------------------
(* Claims on the integer codec.                                            *)

\* The caller's integer lies in [0, 2^28).
Below2To28 == cn.hi < Pow2(12)

\* The caller's integer lies in [0, 2^31).
Below2To31 == cn.hi < Pow2(15)

\* The int32 result is the caller's integer n itself.
ResultIsN ==
    /\ cval >= 0
    /\ cval \div Pow2(16) = cn.hi
    /\ cval % Pow2(16) = cn.lo

\* The int32 result is n - 2^32.
ResultIsNMinus2To32 ==
    /\ cval < 0
    /\ cval \div Pow2(16) = cn.hi - Pow2(16)
    /\ cval % Pow2(16) = cn.lo

SynchRoundTripDone ==
    cpc = "decoded" /\ encBase = SynchByteLength /\ decBase = SynchByteLength

NormRoundTripDone ==
    cpc = "decoded" /\ encBase = NormByteLength /\ decBase = NormByteLength

\* C1: for every n with 0 <= n < 2^28, synchint(synchbytes(n)) returns n
\* and no error.
C1_SynchRoundTrip ==
    (SynchRoundTripDone /\ Below2To28) => (~cerr /\ ResultIsN)

C1_Witness ==
    SynchRoundTripDone /\ Below2To28 /\ cn.hi = 4095 /\ cn.lo = 65535 /\ ResultIsN

\* C2 as stated: for every n with 0 <= n < 2^32, normint(normbytes(n))
\* returns n and no error.
C2_NormRoundTripOriginal ==
    NormRoundTripDone => (~cerr /\ ResultIsN)

\* C2 amended: normint(normbytes(n)) returns no error; the result is n for
\* 0 <= n < 2^31 and n - 2^32 (the int32 of the same 32 bits) for
\* 2^31 <= n < 2^32.
C2_NormRoundTrip ==
    NormRoundTripDone =>
        /\ ~cerr
        /\ Below2To31 => ResultIsN
        /\ ~Below2To31 => ResultIsNMinus2To32

C2_Witness ==
    NormRoundTripDone /\ cn.hi = 32768 /\ cn.lo = 1 /\ cval = MinInt32 + 1

\* Decoding of four bytes has happened.
Decoded4(base) == cpc = "decoded" /\ decBase = base /\ Len(cbuf) = BytesPerInt

\* C3: decoding 4 bytes with base 7 fails iff some byte is >= 128; with
\* base 8 it never fails.
C3_ByteintFails ==
    /\ Decoded4(SynchByteLength) => (cerr <=> \E k \in 1..4 : cbuf[k] >= 128)
    /\ Decoded4(NormByteLength) => ~cerr

C3_Witness ==
    /\ Decoded4(SynchByteLength) /\ cerr
    /\ cbuf[1] = 127 /\ cbuf[2] = 127 /\ cbuf[3] = 127 /\ cbuf[4] = 128


---------------------------------------------------------------------------
(* Text codec: encoding table and terminator scan (src/v2/util.go:87-128). *)

\* What indexing EncodingMap out of range does.
Panic == "panic: index out of range"

\* encodingForIndex: the guard lets b = len(EncodingMap) through.
encodingForIndex(b) ==
    LET encodingIndex == IF b < 0 \/ b > 4 THEN 0 ELSE b
    IN  IF encodingIndex \in DOMAIN EncodingMap THEN EncodingMap[encodingIndex]
        ELSE Panic

\* indexForEncoding: the position of e in EncodingMap, 0 when e is not there.
indexForEncoding(e) ==
    IF \E i \in DOMAIN EncodingMap : EncodingMap[i] = e
    THEN CHOOSE i \in DOMAIN EncodingMap :
             /\ EncodingMap[i] = e
             /\ \A j \in DOMAIN EncodingMap : EncodingMap[j] = e => i <= j
    ELSE 0

\* bytes.IndexByte(data, 0), 0-based, -1 when there is none.
RECURSIVE IndexByteZero(_, _)
IndexByteZero(data, k) ==
    IF k > Len(data) THEN -1
    ELSE IF data[k] = 0 THEN k - 1
    ELSE IndexByteZero(data, k + 1)

\* The loop of afterNullIndex over i in range data[:limit/byteCount].
RECURSIVE utf16Loop(_, _, _)
utf16Loop(data, i, n) ==
    IF i >= n THEN -1
    ELSE LET atIndex == UTF16NullLength * i
             afterIndex == atIndex + UTF16NullLength
         IN  IF \A k \in (atIndex + 1)..afterIndex : data[k] = 0
             THEN afterIndex
             ELSE utf16Loop(data, i + 1, n)

\* A scan that looks for the two zero bytes at every offset, aligned or not.
RECURSIVE utf16LoopAnyOffset(_, _)
utf16LoopAnyOffset(data, k) ==
    IF k + 1 > Len(data) THEN -1
    ELSE IF data[k] = 0 /\ data[k + 1] = 0 THEN k + 1
    ELSE utf16LoopAnyOffset(data, k + 1)

afterNullIndexAnyOffset(data, encoding) ==
    LET encodingString == encodingForIndex(encoding)
    IN  IF encodingString = "UTF-16" \/ encodingString = "UTF-16BE"
        THEN utf16LoopAnyOffset(data, 1)
        ELSE LET index == IndexByteZero(data, 1)
             IN  IF index >= 0 THEN index + 1 ELSE -1

afterNullIndex(data, encoding) ==
    LET encodingString == encodingForIndex(encoding)
    IN  IF encodingString = "UTF-16" \/ encodingString = "UTF-16BE"
        THEN utf16Loop(data, 0, Len(data) \div UTF16NullLength)
        ELSE LET index == IndexByteZero(data, 1)
             IN  IF index >= 0 THEN index + 1 ELSE -1

---------------------------------------------------------------------------
(* SpecScan: afterNullIndex applied to a byte slice under each encoding.   *)

\* Longest slice scanned.
MaxScanLen == 8

\* Byte values of a scanned slice: the zero byte and one other.
ScanBytes == {0, 70}

ScanInputs == UNION {[1..n -> ScanBytes] : n \in 0..MaxScanLen}

InitScan ==
    /\ spc = "start"
    /\ sdata \in ScanInputs
    /\ senc \in DOMAIN EncodingMap
    /\ sres = 0
    /\ IntIdle
    /\ EncIdle
    /\ TagIdle
    /\ FileIdle
    /\ ShiftIdle
    /\ CodecIdle

AfterNullIndex ==
    /\ spc = "start"
    /\ sres' = afterNullIndex(sdata, senc)
    /\ spc' = "done"
    /\ UNCHANGED <<sdata, senc>>

NextScan == AfterNullIndex /\ UNCHANGED <<intVars, encVars, tagVars, fileVars, shiftVars, codecVars>>

SpecScan == InitScan /\ [][NextScan]_vars

\* The 1-based positions of the zero bytes of the scanned slice.
ZeroAt == {k \in 1..Len(sdata) : sdata[k] = 0}

\* The 0-based even offsets at which two zero bytes lie wholly in the slice.
ZeroPairAt ==
    {o \in 0..(Len(sdata) - 2) : o % 2 = 0 /\ sdata[o + 1] = 0 /\ sdata[o + 2] = 0}

SingleByteEnc == EncodingMap[senc] \in {"ISO-8859-1", "UTF-8"}

\* "Foo\x00Bar" up to the values of the non-zero bytes.
FooNulBar == <<70, 70, 70, 0, 70, 70, 70>>

\* C10: afterNullIndex returns the index just after the first zero byte
\* for Latin-1 and UTF-8 (4 for "Foo\x00Bar"), the index just after the
\* first zero pair at an even offset for UTF-16 and UTF-16BE, and -1 when
\* there is no such terminator.
C10_AfterNullIndex ==
    spc = "done" =>
        /\ SingleByteEnc =>
             IF ZeroAt = {} THEN sres = -1
             ELSE sres \in ZeroAt /\ \A k \in ZeroAt : sres <= k
        /\ ~SingleByteEnc =>
             IF ZeroPairAt = {} THEN sres = -1
             ELSE (sres - 2) \in ZeroPairAt /\ \A o \in ZeroPairAt : sres - 2 <= o
        /\ (SingleByteEnc /\ sdata = FooNulBar) => sres = 4

\* A UTF-16 slice with a zero pair at odd offset 1, one at even offset 4
\* and an orphan zero byte at the end.
C10_Witness ==
    /\ spc = "done" /\ senc = 1
    /\ sdata = <<70, 0, 0, 70, 0, 0, 0>>
    /\ sres = 6

---------------------------------------------------------------------------
(* SpecEnc: encodingForIndex applied to every byte value.                  *)

InitEnc ==
    /\ epc = "start"
    /\ eidx \in 0..255
    /\ eres = ""
    /\ IntIdle
    /\ ScanIdle
    /\ TagIdle
    /\ FileIdle
    /\ ShiftIdle
    /\ CodecIdle

EncodingForIndex ==
    /\ epc = "start"
    /\ eres' = encodingForIndex(eidx)
    /\ epc' = "done"
    /\ UNCHANGED eidx

NextEnc == EncodingForIndex /\ UNCHANGED <<intVars, scanVars, tagVars, fileVars, shiftVars, codecVars>>

SpecEnc == InitEnc /\ [][NextEnc]_vars

\* C11: encodingForIndex(b) returns the encoding at table position b for b
\* in 0..3 and returns "ISO-8859-1" for every other byte value, without
\* failing.
C11_EncodingForIndexTotal ==
    epc = "done" =>
        /\ eres # Panic
        /\ eidx \in 0..3 => eres = EncodingMap[eidx]
        /\ eidx \notin 0..3 => eres = "ISO-8859-1"


---------------------------------------------------------------------------
(* Strings and the iconv converters (src/v2/util.go:20-37).                *)
(* A string is the sequence of its code points; Encoders[e].ConvertString  *)
(* turns it into bytes or fails.  "UTF-16" writes a byte-order mark and    *)
(* little-endian units, "UTF-16BE" big-endian units and no mark.           *)

UTF16BOM == <<255, 254>>

EncodeChar(e, c) ==
    CASE e = 0 -> <<c>>
      [] e = 1 -> <<c % 256, c \div 256>>
      [] e = 2 -> <<c \div 256, c % 256>>
      [] e = 3 -> IF c < 128 THEN <<c>>
                  ELSE IF c < 2048 THEN <<192 + (c \div 64), 128 + (c % 64)>>
                  ELSE <<224 + (c \div 4096), 128 + ((c \div 64) % 64), 128 + (c % 64)>>

RECURSIVE EncodeChars(_, _)
EncodeChars(e, s) ==
    IF s = << >> THEN << >>
    ELSE EncodeChar(e, Head(s)) \o EncodeChars(e, Tail(s))

\* Encoders[e].ConvertString(s): a code point above 255 has no Latin-1 byte.
ConvertString(e, s) ==
    IF e = 0 /\ \E k \in 1..Len(s) : s[k] > 255
    THEN [bytes |-> << >>, err |-> TRUE]
    ELSE [bytes |-> (IF e = 1 /\ s # << >> THEN UTF16BOM ELSE << >>) \o EncodeChars(e, s),
          err |-> FALSE]

\* len(s) of a Go string: the length of its UTF-8 bytes.
GoLen(s) == Len(EncodeChars(NativeEncoding, s))

\* encodedDiff(ea, a, eb, b): len(encoded a) - len(encoded b).
encodedDiff(ea, a, eb, b) ==
    LET encodedStringA == ConvertString(ea, a)
        encodedStringB == ConvertString(eb, b)
    IN  IF encodedStringA.err THEN [diff |-> 0, err |-> TRUE]
        ELSE IF encodedStringB.err THEN [diff |-> 0, err |-> TRUE]
        ELSE [diff |-> Len(encodedStringA.bytes) - Len(encodedStringB.bytes),
              err |-> FALSE]

---------------------------------------------------------------------------
(* Frames (src/frame.go:404-902).  A frame is a record of the fields of    *)
(* FrameHead and of the five frame structs; kind names the struct.         *)

FrameHeaderSize == 10
HeaderSize == 10

NoFrameFields ==
    [statusFlags |-> 0, formatFlags |-> 0,
     encoding |-> 0, text |-> << >>, description |-> << >>, language |-> << >>,
     mimeType |-> << >>, pictureType |-> 0, data |-> << >>]

MkFrame(kind, id, size, fields) ==
    [kind |-> kind, id |-> id, size |-> size,
     statusFlags |-> fields.statusFlags, formatFlags |-> fields.formatFlags,
     encoding |-> fields.encoding,
     text |-> fields.text, description |-> fields.description,
     language |-> fields.language, mimeType |-> fields.mimeType,
     pictureType |-> fields.pictureType, data |-> fields.data]

\* FrameHead.changeSize has a value receiver: h.size is changed on a copy of
\* the frame's head and the frame itself keeps its size.  No frame has an
\* owner (nothing calls setOwner), so nothing is propagated either.
changeSize(h, diff) == h

\* FrameHead.Size
Frame_Size(f) == f.size

\* Struct embedding: which frame kinds have the TextFrame / DescTextFrame /
\* DataFrame methods.
IsTextFramer(f) == f.kind \in {"text", "desc", "unsynch"}
IsDescTextFrame(f) == f.kind \in {"desc", "unsynch"}
IsDataFrame(f) == f.kind \in {"data", "image"}

Done(f) == [f |-> f, err |-> FALSE]
Failed(f) == [f |-> f, err |-> TRUE]

\* DataFrame.SetData
DataFrame_SetData(f, b) ==
    LET diff == Len(b) - Len(f.data)
    IN  Done([changeSize(f, diff) EXCEPT !.data = b])

\* A TextFrame.SetEncoding that stores the size itself and adds the
\* magnitude of the difference whatever its sign.
TextFrame_SetEncodingAbsDiff(f, encoding) ==
    LET i == indexForEncoding(encoding)
        d == encodedDiff(f.encoding, f.text, i, f.text)
    IN  IF d.err THEN Failed(f)
        ELSE Done([f EXCEPT !.encoding = i,
                            !.size = @ + (IF d.diff < 0 THEN -d.diff ELSE d.diff)])

\* TextFrame.SetEncoding.  i is a byte, so the test i < 0 never holds.
TextFrame_SetEncoding(f, encoding) ==
    LET i == indexForEncoding(encoding)
        d == encodedDiff(f.encoding, f.text, i, f.text)
    IN  IF i < 0 THEN Failed(f)
        ELSE IF d.err THEN Failed(f)
        ELSE Done([changeSize(f, d.diff) EXCEPT !.encoding = i])

\* TextFrame.SetText
TextFrame_SetText(f, text) ==
    LET d == encodedDiff(f.encoding, text, f.encoding, f.text)
    IN  IF d.err THEN Failed(f)
        ELSE Done([changeSize(f, d.diff) EXCEPT !.text = text])

\* DescTextFrame.SetDescription
DescTextFrame_SetDescription(f, description) ==
    LET d == encodedDiff(f.encoding, description, f.encoding, f.description)
    IN  IF d.err THEN Failed(f)
        ELSE Done([changeSize(f, d.diff) EXCEPT !.description = description])

\* A SetLanguage that takes a language of any length.
UnsynchTextFrame_SetLanguageAnyLength(f, language) ==
    Done([f EXCEPT !.language = language])

\* UnsynchTextFrame.SetLanguage
UnsynchTextFrame_SetLanguage(f, language) ==
    IF GoLen(language) # 3 THEN Failed(f)
    ELSE Done([f EXCEPT !.language = language])

\* DescTextFrame.SetEncoding
DescTextFrame_SetEncoding(f, encoding) ==
    LET i == indexForEncoding(encoding)
        descDiff == encodedDiff(f.encoding, f.text, i, f.text)
        textDiff == encodedDiff(f.encoding, f.description, i, f.description)
    IN  IF i < 0 THEN Failed(f)
        ELSE IF descDiff.err THEN Failed(f)
        ELSE IF textDiff.err THEN Failed(f)
        ELSE Done([changeSize(f, descDiff.diff + textDiff.diff) EXCEPT !.encoding = i])

\* ImageFrame.SetEncoding
ImageFrame_SetEncoding(f, encoding) ==
    LET i == indexForEncoding(encoding)
        d == encodedDiff(f.encoding, f.description, i, f.description)
    IN  IF i < 0 THEN Failed(f)
        ELSE IF d.err THEN Failed(f)
        ELSE Done([changeSize(f, d.diff) EXCEPT !.encoding = i])

\* ImageFrame.SetMIMEType (mimeType is not empty)
ImageFrame_SetMIMEType(f, mimeType) ==
    LET diff == GoLen(mimeType) - GoLen(f.mimeType)
    IN  IF mimeType[Len(mimeType)] # 0
        THEN Done([changeSize(f, diff + 1) EXCEPT !.mimeType = Append(mimeType, 0)])
        ELSE Done([changeSize(f, diff) EXCEPT !.mimeType = mimeType])

\* f.SetEncoding(encoding) as Go resolves it through the embedded structs.
Frame_SetEncoding(f, encoding) ==
    CASE f.kind = "text" -> TextFrame_SetEncoding(f, encoding)
      [] f.kind \in {"desc", "unsynch"} -> DescTextFrame_SetEncoding(f, encoding)
      [] f.kind = "image" -> ImageFrame_SetEncoding(f, encoding)

\* The number of bytes f.Bytes() has to write for the frame's fields.
BodyLen(f) ==
    CASE f.kind = "data" -> Len(f.data)
      [] f.kind = "text" ->
            1 + Len(ConvertString(f.encoding, f.text).bytes)
      [] f.kind = "desc" ->
            1 + Len(ConvertString(f.encoding, f.description).bytes)
              + Len(ConvertString(f.encoding, f.text).bytes)
      [] f.kind = "unsynch" ->
            1 + Len(ConvertString(NativeEncoding, f.language).bytes)
              + Len(ConvertString(f.encoding, f.description).bytes)
              + Len(ConvertString(f.encoding, f.text).bytes)
      [] f.kind = "image" ->
            1 + Len(ConvertString(NativeEncoding, f.mimeType).bytes) + 1
              + Len(ConvertString(f.encoding, f.description).bytes)
              + Len(f.data)

\* The frame constructors of the author path.
NewDataFrame(id, data) ==
    MkFrame("data", id, Len(data), [NoFrameFields EXCEPT !.data = data])

NewTextFrame(id, text) ==
    MkFrame("text", id, 1 + GoLen(text), [NoFrameFields EXCEPT !.text = text])

NewDescTextFrame(id, desc, text) ==
    [NewTextFrame(id, text) EXCEPT !.kind = "desc",
                                   !.size = @ + GoLen(desc),
                                   !.description = desc]

NewUnsynchTextFrame(id, desc, text) ==
    [NewDescTextFrame(id, desc, text) EXCEPT !.kind = "unsynch",
                                             !.size = @ + 3,
                                             !.language = <<101, 110, 103>>]

---------------------------------------------------------------------------
(* The iconv decoders and the payload reader (src/v2/util.go:27-37,        *)
(* src/unnamed/part_006).                                                  *)

\* UTF-8 bytes to code points, up to three-byte sequences.
RECURSIVE DecodeUTF8(_)
DecodeUTF8(b) ==
    IF b = << >> THEN [s |-> << >>, err |-> FALSE]
    ELSE LET n == IF b[1] < 128 THEN 1
                  ELSE IF b[1] >= 192 /\ b[1] < 224 THEN 2
                  ELSE IF b[1] >= 224 /\ b[1] < 240 THEN 3
                  ELSE 0
         IN  IF n = 0 \/ n > Len(b) THEN [s |-> << >>, err |-> TRUE]
             ELSE IF \E k \in 2..n : b[k] < 128 \/ b[k] >= 192
                  THEN [s |-> << >>, err |-> TRUE]
             ELSE LET c == CASE n = 1 -> b[1]
                             [] n = 2 -> (b[1] - 192) * 64 + (b[2] - 128)
                             [] n = 3 -> (b[1] - 224) * 4096 + (b[2] - 128) * 64
                                           + (b[3] - 128)
                      r == DecodeUTF8(SubSeq(b, n + 1, Len(b)))
                  IN  IF r.err THEN r ELSE [s |-> <<c>> \o r.s, err |-> FALSE]

\* UTF-16 units to code points; big is the byte order.
RECURSIVE DecodeUTF16(_, _)
DecodeUTF16(b, big) ==
    IF b = << >> THEN [s |-> << >>, err |-> FALSE]
    ELSE IF Len(b) = 1 THEN [s |-> << >>, err |-> TRUE]
    ELSE LET c == IF big THEN b[1] * 256 + b[2] ELSE b[2] * 256 + b[1]
             r == DecodeUTF16(SubSeq(b, 3, Len(b)), big)
         IN  IF r.err THEN r ELSE [s |-> <<c>> \o r.s, err |-> FALSE]

\* Decoders[e].ConvertString(b) for e in 0..3.  "UTF-16" follows the
\* byte-order mark when there is one and reads little-endian units otherwise.
DecodeString(e, b) ==
    CASE e = 0 -> [s |-> b, err |-> FALSE]
      [] e = 1 -> IF Len(b) >= 2 /\ SubSeq(b, 1, 2) = UTF16BOM
                  THEN DecodeUTF16(SubSeq(b, 3, Len(b)), FALSE)
                  ELSE IF Len(b) >= 2 /\ SubSeq(b, 1, 2) = <<254, 255>>
                  THEN DecodeUTF16(SubSeq(b, 3, Len(b)), TRUE)
                  ELSE DecodeUTF16(b, FALSE)
      [] e = 2 -> DecodeUTF16(b, TRUE)
      [] e = 3 -> DecodeUTF8(b)

\* A reader over data with index bytes consumed.
newReader(b) == [data |-> b, index |-> 0]

\* reader.read, with len(b) = len
read(r, len) ==
    IF len = 0 THEN [b |-> << >>, r |-> r, err |-> FALSE]
    ELSE IF r.index >= Len(r.data) THEN [b |-> << >>, r |-> r, err |-> TRUE]
    ELSE LET n == IF len < Len(r.data) - r.index THEN len ELSE Len(r.data) - r.index
         IN  [b |-> SubSeq(r.data, r.index + 1, r.index + n),
              r |-> [r EXCEPT !.index = @ + n], err |-> FALSE]

\* reader.readByte
readByte(r) ==
    IF r.index >= Len(r.data) THEN [b |-> << >>, r |-> r, err |-> TRUE]
    ELSE [b |-> <<r.data[r.index + 1]>>, r |-> [r EXCEPT !.index = @ + 1], err |-> FALSE]

\* A readNumBytes that does not compare n with what is left.
readNumBytesUnchecked(r, n) ==
    IF n <= 0 THEN [b |-> << >>, r |-> r, err |-> FALSE]
    ELSE [b |-> SubSeq(r.data, r.index + 1,
                       IF r.index + n < Len(r.data) THEN r.index + n ELSE Len(r.data)),
          r |-> [r EXCEPT !.index = @ + n], err |-> FALSE]

\* reader.readNumBytes
readNumBytes(r, n) ==
    IF n <= 0 THEN [b |-> << >>, r |-> r, err |-> FALSE]
    ELSE IF r.index + n > Len(r.data) THEN [b |-> << >>, r |-> r, err |-> TRUE]
    ELSE [b |-> SubSeq(r.data, r.index + 1, r.index + n),
          r |-> [r EXCEPT !.index = @ + n], err |-> FALSE]

\* reader.readRest
readRest(r) == readNumBytes(r, Len(r.data) - r.index)

\* What a read of a string gives: the string, the reader, and whether it
\* failed or panicked (Decoders[encoding] with encoding past the table,
\* encodingForIndex(4)).
StringRead(s, r, err, panic) == [s |-> s, r |-> r, err |-> err, panic |-> panic]

\* reader.readRestString
readRestString(r, encoding) ==
    LET b == readRest(r)
    IN  IF b.err THEN StringRead(<< >>, b.r, TRUE, FALSE)
        ELSE IF encoding \notin DOMAIN EncodingMap
             THEN StringRead(<< >>, b.r, FALSE, TRUE)
        ELSE LET d == DecodeString(encoding, b.b)
             IN  StringRead(d.s, b.r, d.err, FALSE)

\* reader.readNullTermString
readNullTermString(r, encoding) ==
    IF encodingForIndex(encoding) = Panic THEN StringRead(<< >>, r, FALSE, TRUE)
    ELSE LET b == readNumBytes(r, afterNullIndex(SubSeq(r.data, r.index + 1, Len(r.data)),
                                                 encoding))
         IN  IF b.err THEN StringRead(<< >>, b.r, TRUE, FALSE)
             ELSE IF encoding \notin DOMAIN EncodingMap
                  THEN StringRead(<< >>, b.r, FALSE, TRUE)
             ELSE LET d == DecodeString(encoding, b.b)
                  IN  StringRead(d.s, b.r, d.err, FALSE)

---------------------------------------------------------------------------
(* The parse constructors (src/frame.go:496-832).  Each gives a frame, nil *)
(* or a panic.                                                             *)

ParsedOk(f) == [status |-> "ok", f |-> f]
ParsedNil == [status |-> "nil", f |-> MkFrame("data", "", 0, NoFrameFields)]
ParsedPanic == [status |-> "panic", f |-> MkFrame("data", "", 0, NoFrameFields)]

\* ParseDataFrame
ParseDataFrame(h, data) == ParsedOk([h EXCEPT !.kind = "data", !.data = data])

\* ParseTextFrame
ParseTextFrame(h, data) ==
    IF Len(data) = 0 THEN ParsedNil
    ELSE LET text == readRestString([data |-> data, index |-> 1], data[1])
         IN  IF text.panic THEN ParsedPanic
             ELSE IF text.err THEN ParsedNil
             ELSE ParsedOk([h EXCEPT !.kind = "text", !.encoding = data[1],
                                     !.text = text.s])

\* ParseDescTextFrame
ParseDescTextFrame(h, data) ==
    IF Len(data) = 0 THEN ParsedNil
    ELSE LET description == readNullTermString([data |-> data, index |-> 1], data[1])
             text == readRestString(description.r, data[1])
         IN  IF description.panic THEN ParsedPanic
             ELSE IF description.err THEN ParsedNil
             ELSE IF text.panic THEN ParsedPanic
             ELSE IF text.err THEN ParsedNil
             ELSE ParsedOk([h EXCEPT !.kind = "desc", !.encoding = data[1],
                                     !.description = description.s,
                                     !.text = text.s])

\* ParseUnsynchTextFrame
ParseUnsynchTextFrame(h, data) ==
    IF Len(data) = 0 THEN ParsedNil
    ELSE LET language == readNumBytes([data |-> data, index |-> 1], 3)
             description == readNullTermString(language.r, data[1])
             text == readRestString(description.r, data[1])
         IN  IF language.err THEN ParsedNil
             ELSE IF description.panic THEN ParsedPanic
             ELSE IF description.err THEN ParsedNil
             ELSE IF text.panic THEN ParsedPanic
             ELSE IF text.err THEN ParsedNil
             ELSE ParsedOk([h EXCEPT !.kind = "unsynch", !.encoding = data[1],
                                     !.language = language.b,
                                     !.description = description.s,
                                     !.text = text.s])

\* ParseImageFrame
ParseImageFrame(h, data) ==
    IF Len(data) = 0 THEN ParsedNil
    ELSE LET mimeType == readNullTermString([data |-> data, index |-> 1], NativeEncoding)
             hasType == mimeType.r.index < Len(data)
             afterType == [mimeType.r EXCEPT !.index = @ + 1]
             description == readNullTermString(afterType, data[1])
             rest == readRest(description.r)
         IN  IF mimeType.err THEN ParsedNil
             ELSE IF ~hasType THEN ParsedNil
             ELSE IF description.panic THEN ParsedPanic
             ELSE IF description.err THEN ParsedNil
             ELSE ParsedOk([h EXCEPT !.kind = "image", !.encoding = data[1],
                                     !.mimeType = mimeType.s,
                                     !.pictureType = data[mimeType.r.index + 1],
                                     !.description = description.s,
                                     !.data = rest.b])

---------------------------------------------------------------------------
(* The payload writer and the frames' Bytes (src/v2/writer.go,             *)
(* src/frame.go:514-901).  A writer fills a slice of cap bytes; a failed     *)
(* write ends the Bytes method, which returns the slice as it is.          *)

newWriter(n) == [out |-> << >>, cap |-> n, err |-> FALSE]

\* writer.writeByte
writeByte(w, b) ==
    IF w.err THEN w
    ELSE IF Len(w.out) >= w.cap THEN [w EXCEPT !.err = TRUE]
    ELSE [w EXCEPT !.out = Append(@, b)]

\* writer.write: copy writes what fits.
write(w, b) ==
    IF w.err \/ Len(b) = 0 THEN w
    ELSE IF Len(w.out) >= w.cap THEN [w EXCEPT !.err = TRUE]
    ELSE LET n == IF Len(b) < w.cap - Len(w.out) THEN Len(b) ELSE w.cap - Len(w.out)
         IN  [w EXCEPT !.out = @ \o SubSeq(b, 1, n)]

\* writer.writeString
writeString(w, s, encoding) ==
    IF w.err THEN w
    ELSE LET encodedString == ConvertString(encoding, s)
         IN  IF encodedString.err THEN [w EXCEPT !.err = TRUE]
             ELSE write(w, encodedString.bytes)

Zeros(n) == [k \in 1..n |-> 0]

\* The slice the writer was filling: what was written, then zero bytes.
written(w) == w.out \o Zeros(w.cap - Len(w.out))

\* f.Bytes() as Go resolves it: DataFrame.Bytes, TextFrame.Bytes,
\* DescTextFrame.Bytes, UnsynchTextFrame.Bytes, ImageFrame.Bytes.
Frame_Bytes(f) ==
    LET w0 == newWriter(Frame_Size(f))
        w1 == writeByte(w0, f.encoding)
    IN  CASE f.kind = "data" -> f.data
          [] f.kind = "text" -> written(writeString(w1, f.text, f.encoding))
          [] f.kind = "desc" ->
                written(writeString(writeString(w1, f.description, f.encoding),
                                    f.text, f.encoding))
          [] f.kind = "unsynch" ->
                written(writeString(writeString(writeString(w1, f.language, NativeEncoding),
                                                f.description, f.encoding),
                                    f.text, f.encoding))
          [] f.kind = "image" ->
                written(write(writeString(writeByte(writeString(w1, f.mimeType, NativeEncoding),
                                                    f.pictureType),
                                          f.description, f.encoding),
                              f.data))


---------------------------------------------------------------------------
(* The tag (src/unnamed/part_002).                                         *)

\* V23FrameTypeMap, for the frame identifiers of the model: the parse
\* constructor of each (the five common text frames, and one identifier per
\* other frame struct).
V23FrameTypeMap ==
    [TIT2 |-> "text", TPE1 |-> "text", TALB |-> "text", TYER |-> "text",
     TCON |-> "text", TXXX |-> "desc", COMM |-> "unsynch", APIC |-> "image",
     UFID |-> "data"]

Ids == DOMAIN V23FrameTypeMap

\* []byte(id)
IdBytes ==
    [TIT2 |-> <<84, 73, 84, 50>>, TPE1 |-> <<84, 80, 69, 49>>,
     TALB |-> <<84, 65, 76, 66>>, TYER |-> <<84, 89, 69, 82>>,
     TCON |-> <<84, 67, 79, 78>>, TXXX |-> <<84, 88, 88, 88>>,
     COMM |-> <<67, 79, 77, 77>>, APIC |-> <<65, 80, 73, 67>>,
     UFID |-> <<85, 70, 73, 68>>]

\* V23CommonFrame
V23CommonFrame ==
    [Title |-> "TIT2", Artist |-> "TPE1", Album |-> "TALB", Year |-> "TYER",
     Genre |-> "TCON"]

\* The frames of the tag under every identifier, as (identifier, position).
Slots == {<<id, k>> \in Ids \X (1..8) : k <= Len(frames[id])}

FrameAt(s) == frames[s[1]][s[2]]

NumFrames == Cardinality(Slots)

\* A sum that leaves the frame headers out.
RECURSIVE SumListNoHeader(_)
SumListNoHeader(v) ==
    IF v = << >> THEN 0
    ELSE Frame_Size(Head(v)) + SumListNoHeader(Tail(v))

\* for _, f := range v { size += t.frameHeaderSize + f.Size() }
RECURSIVE SumList(_)
SumList(v) ==
    IF v = << >> THEN 0
    ELSE frameHeaderSize + Frame_Size(Head(v)) + SumList(Tail(v))

\* for _, v := range t.frames { ... }
RECURSIVE SumMap(_)
SumMap(ids) ==
    IF ids = {} THEN 0
    ELSE LET id == CHOOSE x \in ids : TRUE
         IN  SumList(frames[id]) + SumMap(ids \ {id})

\* A Tag.Size that returns the header's size whatever the frames need.
Tag_SizeHeaderOnly == head.size

\* Tag.Size: the value it returns.  It assigns t.padding on its copy of the
\* tag (value receiver) and head.size on a copy of the header taken out of
\* the interface, so the tag keeps its padding and its header.
Tag_Size ==
    LET size == SumMap(Ids)
        headerSize == head.size
    IN  IF headerSize - size < 0 THEN size ELSE headerSize

\* Head.Bytes
Head_Bytes ==
    <<73, 68, 51, head.version, head.revision, head.flags>> \o synchbytes(head.size)

\* V23Bytes
V23Bytes(f) ==
    IdBytes[f.id] \o normbytes(Frame_Size(f)) \o <<f.statusFlags, f.formatFlags>>
        \o Frame_Bytes(f)

\* copy(data[index:index+size], b) into zeroed bytes: b cut or filled to size.
CopyInto(size, b) ==
    IF Len(b) >= size THEN SubSeq(b, 1, size) ELSE b \o Zeros(size - Len(b))

\* for _, f := range v { copy(data[index:index+size], V23Bytes(f)) }
RECURSIVE BytesList(_)
BytesList(v) ==
    IF v = << >> THEN << >>
    ELSE CopyInto(frameHeaderSize + Frame_Size(Head(v)), V23Bytes(Head(v)))
             \o BytesList(Tail(v))

\* for _, v := range t.frames { ... } in the order the map is ranged over.
RECURSIVE BytesMap(_)
BytesMap(order) ==
    IF order = << >> THEN << >>
    ELSE BytesList(frames[Head(order)]) \o BytesMap(Tail(order))

\* The identifiers t.frames has an entry for, and the orders in which a
\* range over the map may visit them.
IdsInUse == {id \in Ids : frames[id] # << >>}

MapOrders ==
    {o \in [1..Cardinality(IdsInUse) -> IdsInUse] :
        \A i, j \in DOMAIN o : i # j => o[i] # o[j]}

\* A Tag.Bytes whose data ends with the last frame.
Tag_BytesNoPadding(order) == Head_Bytes \o BytesMap(order)

\* Tag.Bytes, with the map ranged over in the given order.
Tag_Bytes(order) ==
    LET laid == BytesMap(order)
    IN  Head_Bytes \o laid \o Zeros(Tag_Size - Len(laid))

\* Tag.Frames (nil is the empty list)
Tag_Frames(id) == frames[id]

\* A Framer or nil.
SomeFramer(f) == [ok |-> TRUE, f |-> f]
NilFramer == [ok |-> FALSE, f |-> ParsedNil.f]

\* Tag.Frame
Tag_Frame(id) ==
    IF Tag_Frames(id) # << >> THEN SomeFramer(Tag_Frames(id)[1]) ELSE NilFramer

\* A textFrame that takes the first frame whatever its type.
textFrameAnyType(id) == Tag_Frame(id)

\* Tag.textFrame
textFrame(id) ==
    LET frame == Tag_Frame(id)
    IN  IF frame.ok /\ IsTextFramer(frame.f) THEN frame ELSE NilFramer

\* Tag.textFrameText
textFrameText(id) ==
    LET frame == textFrame(id)
    IN  IF frame.ok THEN frame.f.text ELSE << >>

Call(op, err, ret) == [op |-> op, err |-> err, ret |-> ret]

NoHist == [phase |-> 0, id |-> "", k |-> 0, size0 |-> 0, text0 |-> << >>, enc1 |-> 0]

---------------------------------------------------------------------------
(* Spec: a parsed tag and the calls a caller makes on it and its frames.   *)

\* Most frames a tag holds.
MaxFrames == 2

\* Strings, as code points: "A", "AA", the euro sign (which has no Latin-1
\* byte), and "A" and "AA" followed by the terminator.
StrA == <<65>>
StrAA == <<65, 65>>
StrEuro == <<8364>>
StrA0 == <<65, 0>>
StrAA0 == <<65, 65, 0>>

\* Arguments of SetText, SetDescription, SetData, SetMIMEType, SetEncoding.
Texts == {StrA, StrEuro}
Descriptions == {StrA0, StrAA0}
Datas == {<<1>>, <<1, 2>>}
MIMETypes == {StrAA, StrA0}
EncodingNames == {"ISO-8859-1", "UTF-16", "UTF-16BE", "UTF-8", "KOI8-R"}

\* Arguments of SetLanguage: "deu", "en", and "d\u00e9u" (three characters,
\* four bytes).
Languages == {<<100, 101, 117>>, <<101, 110>>, <<100, 233, 117>>}

\* A frame as the parse path leaves it: its size is the length of its payload.
Parsed(kind, id, fields) ==
    LET f == MkFrame(kind, id, 0, fields)
    IN  [f EXCEPT !.size = BodyLen(f)]

ParsedFrames ==
    { Parsed("text", "TIT2", [NoFrameFields EXCEPT !.text = StrA]),
      Parsed("desc", "TXXX", [NoFrameFields EXCEPT !.description = StrA0,
                                                   !.text = StrA]),
      Parsed("image", "APIC", [NoFrameFields EXCEPT !.mimeType = StrA0,
                                                    !.pictureType = 3,
                                                    !.description = StrA0,
                                                    !.data = <<1>>]),
      Parsed("unsynch", "COMM", [NoFrameFields EXCEPT !.language = <<101, 110, 103>>,
                                                      !.description = StrA0,
                                                      !.text = StrA]),
      Parsed("data", "UFID", [NoFrameFields EXCEPT !.data = <<1>>]) }

\* Frames a caller builds and adds.
BuiltFrames ==
    { NewTextFrame("TIT2", StrA),
      NewDataFrame("UFID", <<1, 2>>),
      NewDataFrame("TCON", <<1>>) }

\* Padding bytes of the parsed tag.  NewTag returns a tag only when at least
\* frameHeaderSize bytes of the declared size are left after the frames.
PaddingSamples == {10, 12}

Init ==
    /\ \E f \in ParsedFrames, p \in PaddingSamples :
         /\ frames = [id \in Ids |-> IF id = f.id THEN <<f>> ELSE << >>]
         /\ head = [version |-> 3, revision |-> 0, flags |-> 0,
                    size |-> FrameHeaderSize + f.size + p]
         /\ padding = p
    /\ frameHeaderSize = FrameHeaderSize
    /\ last = Call("NewTag", FALSE, << >>)
    /\ hist = NoHist
    /\ IntIdle
    /\ ScanIdle
    /\ EncIdle
    /\ FileIdle
    /\ ShiftIdle
    /\ CodecIdle

\* Replace the frame at slot s by what a mutator left, and note the call.
Mutated(s, op, r) ==
    /\ frames' = [frames EXCEPT ![s[1]][s[2]] = r.f]
    /\ last' = Call(op, r.err, << >>)
    /\ UNCHANGED <<head, frameHeaderSize, padding>>

SetText(s, text) ==
    /\ IsTextFramer(FrameAt(s))
    /\ Mutated(s, "SetText", TextFrame_SetText(FrameAt(s), text))
    /\ hist' = NoHist

SetDescription(s, description) ==
    /\ IsDescTextFrame(FrameAt(s))
    /\ Mutated(s, "SetDescription", DescTextFrame_SetDescription(FrameAt(s), description))
    /\ hist' = NoHist

SetEncoding(s, encoding) ==
    /\ FrameAt(s).kind # "data"
    /\ Mutated(s, "SetEncoding", Frame_SetEncoding(FrameAt(s), encoding))
    /\ hist' =
         IF hist.phase = 1 /\ hist.id = s[1] /\ hist.k = s[2] /\ encoding = "ISO-8859-1"
         THEN [hist EXCEPT !.phase = 2]
         ELSE IF FrameAt(s).kind = "text" /\ FrameAt(s).encoding = 0 /\ encoding = "UTF-16"
         THEN [phase |-> 1, id |-> s[1], k |-> s[2],
               size0 |-> Frame_Size(FrameAt(s)), text0 |-> FrameAt(s).text,
               enc1 |-> Frame_SetEncoding(FrameAt(s), encoding).f.encoding]
         ELSE NoHist

SetLanguage(s, language) ==
    /\ FrameAt(s).kind = "unsynch"
    /\ Mutated(s, "SetLanguage", UnsynchTextFrame_SetLanguage(FrameAt(s), language))
    /\ hist' = NoHist

SetData(s, b) ==
    /\ IsDataFrame(FrameAt(s))
    /\ Mutated(s, "SetData", DataFrame_SetData(FrameAt(s), b))
    /\ hist' = NoHist

SetMIMEType(s, mimeType) ==
    /\ FrameAt(s).kind = "image"
    /\ Mutated(s, "SetMIMEType", ImageFrame_SetMIMEType(FrameAt(s), mimeType))
    /\ hist' = NoHist

\* Tag.AddFrame
AddFrame(frame) ==
    /\ NumFrames < MaxFrames
    /\ frames' = [frames EXCEPT ![frame.id] = Append(@, frame)]
    /\ last' = Call("AddFrame", FALSE, << >>)
    /\ hist' = NoHist
    /\ UNCHANGED <<head, frameHeaderSize, padding>>

\* Tag.setTextFrameText, called by the setter op; the error of SetText is
\* dropped.
setTextFrameText(id, text, op) ==
    /\ LET frame == textFrame(id)
       IN  IF frame.ok
           THEN frames' = [frames EXCEPT ![id][1] = TextFrame_SetText(frame.f, text).f]
           ELSE frames' = frames
    /\ last' = Call(op, FALSE, << >>)
    /\ hist' = NoHist
    /\ UNCHANGED <<head, frameHeaderSize, padding>>

SetTitle(text) == setTextFrameText(V23CommonFrame["Title"], text, "SetTitle")
SetArtist(text) == setTextFrameText(V23CommonFrame["Artist"], text, "SetArtist")
SetAlbum(text) == setTextFrameText(V23CommonFrame["Album"], text, "SetAlbum")
SetYear(text) == setTextFrameText(V23CommonFrame["Year"], text, "SetYear")
SetGenre(text) == setTextFrameText(V23CommonFrame["Genre"], text, "SetGenre")

\* A DeleteFrames that takes only the first frame out.
DeleteFramesFirst(id) ==
    /\ frames' = [frames EXCEPT ![id] = IF @ = << >> THEN @ ELSE Tail(@)]
    /\ last' = Call("DeleteFrames", FALSE, Tag_Frames(id))
    /\ hist' = NoHist
    /\ UNCHANGED <<head, frameHeaderSize, padding>>

\* Tag.DeleteFrames
DeleteFrames(id) ==
    /\ frames' = [frames EXCEPT ![id] = << >>]
    /\ last' = Call("DeleteFrames", FALSE, Tag_Frames(id))
    /\ hist' = NoHist
    /\ UNCHANGED <<head, frameHeaderSize, padding>>

\* Tag.Size
Size ==
    /\ last' = Call("Size", FALSE, Tag_Size)
    /\ hist' = NoHist
    /\ UNCHANGED <<head, frameHeaderSize, padding, frames>>

\* Tag.Bytes
Bytes ==
    /\ \E order \in MapOrders : last' = Call("Bytes", FALSE, Tag_Bytes(order))
    /\ hist' = NoHist
    /\ UNCHANGED <<head, frameHeaderSize, padding, frames>>

Next ==
    \/ \E s \in Slots, text \in Texts : SetText(s, text) /\ UNCHANGED <<intVars, scanVars, encVars, fileVars, shiftVars, codecVars>>
    \/ \E s \in Slots, d \in Descriptions : SetDescription(s, d) /\ UNCHANGED <<intVars, scanVars, encVars, fileVars, shiftVars, codecVars>>
    \/ \E s \in Slots, e \in EncodingNames : SetEncoding(s, e) /\ UNCHANGED <<intVars, scanVars, encVars, fileVars, shiftVars, codecVars>>
    \/ \E s \in Slots, l \in Languages : SetLanguage(s, l) /\ UNCHANGED <<intVars, scanVars, encVars, fileVars, shiftVars, codecVars>>
    \/ \E s \in Slots, b \in Datas : SetData(s, b) /\ UNCHANGED <<intVars, scanVars, encVars, fileVars, shiftVars, codecVars>>
    \/ \E s \in Slots, m \in MIMETypes : SetMIMEType(s, m) /\ UNCHANGED <<intVars, scanVars, encVars, fileVars, shiftVars, codecVars>>
    \/ \E f \in BuiltFrames : AddFrame(f) /\ UNCHANGED <<intVars, scanVars, encVars, fileVars, shiftVars, codecVars>>
    \/ \E id \in Ids : DeleteFrames(id) /\ UNCHANGED <<intVars, scanVars, encVars, fileVars, shiftVars, codecVars>>
    \/ \E text \in Texts : SetTitle(text) /\ UNCHANGED <<intVars, scanVars, encVars, fileVars, shiftVars, codecVars>>
    \/ \E text \in Texts : SetArtist(text) /\ UNCHANGED <<intVars, scanVars, encVars, fileVars, shiftVars, codecVars>>
    \/ \E text \in Texts : SetAlbum(text) /\ UNCHANGED <<intVars, scanVars, encVars, fileVars, shiftVars, codecVars>>
    \/ \E text \in Texts : SetYear(text) /\ UNCHANGED <<intVars, scanVars, encVars, fileVars, shiftVars, codecVars>>
    \/ \E text \in Texts : SetGenre(text) /\ UNCHANGED <<intVars, scanVars, encVars, fileVars, shiftVars, codecVars>>
    \/ Size /\ UNCHANGED <<intVars, scanVars, encVars, fileVars, shiftVars, codecVars>>
    \/ Bytes /\ UNCHANGED <<intVars, scanVars, encVars, fileVars, shiftVars, codecVars>>

Spec == Init /\ [][Next]_vars


---------------------------------------------------------------------------
(* Claims on the tag and its frames.                                       *)

\* The sum over all frames of the tag of frameHeaderSize + frame.Size().
RECURSIVE SlotSum(_)
SlotSum(ss) ==
    IF ss = {} THEN 0
    ELSE LET s == CHOOSE x \in ss : TRUE
         IN  frameHeaderSize + FrameAt(s).size + SlotSum(ss \ {s})

FrameSum == SlotSum(Slots)

TextMutators == {"SetText", "SetDescription", "SetEncoding"}

Mutators == TextMutators \cup {"SetData", "SetMIMEType"}

\* C4 as stated: after SetText, SetDescription and SetEncoding calls,
\* tag.Size() equals the sum over the frames of frameHeaderSize + Size().
C4_TagSizeIsSumOriginal ==
    last.op \in TextMutators => Tag_Size = FrameSum

\* C4 amended: after SetText, SetDescription and SetEncoding calls,
\* tag.Size() equals that sum when the sum is at least the header's declared
\* size, and the header's declared size (the sum plus the padding) otherwise.
C4_TagSizeIsSumOrDeclared ==
    last.op \in TextMutators =>
        /\ FrameSum >= head.size => Tag_Size = FrameSum
        /\ FrameSum < head.size => Tag_Size = head.size

C4_Witness ==
    /\ last.op = "SetText" /\ ~last.err
    /\ NumFrames = 2
    /\ FrameSum > head.size
    /\ Tag_Size = FrameSum

\* C5: after any mutator call every frame's Size() is the byte length of
\* the body its Bytes() serializes from the frame's fields.
C5_SizeIsBodyLen ==
    last.op \in Mutators => \A s \in Slots : Frame_Size(FrameAt(s)) = BodyLen(FrameAt(s))

\* C6: Tag.Size() returns the frame sum S when S exceeds the declared size D
\* and D otherwise, computed from the frames the tag holds at the call; it
\* never returns less than S.
C6_TagSizeRecomputed ==
    last.op = "Size" =>
        /\ last.ret = (IF FrameSum > head.size THEN FrameSum ELSE head.size)
        /\ last.ret >= FrameSum

C6_Witness ==
    /\ last.op = "Size"
    /\ NumFrames = 2
    /\ FrameSum > head.size
    /\ last.ret = FrameSum

\* The declared size in the header bytes Tag.Bytes() produced.
DeclaredInBytes == synchint(SubSeq(last.ret, 7, 10)).i

\* C7: once the frame sum exceeds the declared size, the header's declared
\* size is raised to the sum and the padding is 0, and the header bytes
\* Tag.Bytes() produces declare that size.
C7_HeaderRaisedToSum ==
    last.op = "Bytes" =>
        /\ head.size >= FrameSum
        /\ DeclaredInBytes >= FrameSum
        /\ head.size = FrameSum => padding = 0

\* C8: on a Latin-1 text frame, SetEncoding("UTF-16") followed by
\* SetEncoding("ISO-8859-1") leaves Size() and Text() as they were.
C8_EncodingRoundTrip ==
    hist.phase = 2 =>
        /\ Frame_Size(FrameAt(<<hist.id, hist.k>>)) = hist.size0
        /\ FrameAt(<<hist.id, hist.k>>).text = hist.text0

C8_Witness ==
    /\ hist.phase = 2 /\ hist.enc1 = 1 /\ ~last.err
    /\ FrameAt(<<hist.id, hist.k>>).encoding = 0
    /\ FrameAt(<<hist.id, hist.k>>).text = StrA

\* C9: SetEncoding with a name that is none of the four known encodings
\* returns an error and leaves the frame's encoding and size and the tag's
\* size unchanged.
C9_UnknownEncodingRejected ==
    [][\A s \in Slots :
          (FrameAt(s).kind # "data" /\ SetEncoding(s, "KOI8-R")) =>
              /\ last'.err
              /\ frames'[s[1]][s[2]].encoding = FrameAt(s).encoding
              /\ frames'[s[1]][s[2]].size = FrameAt(s).size
              /\ Tag_Size' = Tag_Size]_vars

\* C19: DeleteFrames(id) returns the frames stored under id, in the order
\* AddFrame put them there, and removes them, so that Frames(id) and
\* Frame(id) are nil afterwards; the frames under every other identifier
\* stay; with no frame under id it returns nil and the tag is unchanged.
C19_DeleteFrames ==
    [][/\ \A id \in Ids :
            (last'.op = "DeleteFrames" /\ DeleteFrames(id)) =>
                /\ last'.ret = Tag_Frames(id)
                /\ Tag_Frames(id)' = << >>
                /\ ~Tag_Frame(id)'.ok
                /\ \A other \in Ids \ {id} : Tag_Frames(other)' = Tag_Frames(other)
                /\ Tag_Frames(id) = << >> =>
                       last'.ret = << >> /\ UNCHANGED <<head, frameHeaderSize, padding, frames>>
       /\ \A f \in BuiltFrames :
            (last'.op = "AddFrame" /\ AddFrame(f)) =>
                Tag_Frames(f.id)' = Tag_Frames(f.id) \o <<f>>]_vars

\* The parsed "UFID" frame and the one added after it were deleted and
\* returned in that order.
C19_Witness ==
    /\ last.op = "DeleteFrames"
    /\ Len(last.ret) = 2
    /\ last.ret[1].data = <<1>> /\ last.ret[2].data = <<1, 2>>
    /\ Tag_Frames("UFID") = << >>

\* The setter of each common field.
SetterOf ==
    [Title |-> "SetTitle", Artist |-> "SetArtist", Album |-> "SetAlbum",
     Year |-> "SetYear", Genre |-> "SetGenre"]

\* C20: a convenience setter changes only the text of the first frame
\* under the field's identifier when that frame is text-shaped; with no
\* frame there, or a first frame that is not text-shaped, the tag and its
\* frames are unchanged, no error is raised and the getter returns "".
C20_ConvenienceSetters ==
    [][\A name \in DOMAIN V23CommonFrame :
          LET id == V23CommonFrame[name]
              first == Tag_Frame(id)
          IN  last'.op = SetterOf[name] =>
                /\ ~last'.err
                /\ UNCHANGED <<head, frameHeaderSize, padding>>
                /\ \A other \in Ids \ {id} : frames'[other] = frames[other]
                /\ Len(frames'[id]) = Len(frames[id])
                /\ \A k \in 2..Len(frames[id]) : frames'[id][k] = frames[id][k]
                /\ (first.ok /\ IsTextFramer(first.f)) =>
                       /\ frames'[id][1] = [first.f EXCEPT !.text = frames'[id][1].text]
                       /\ textFrameText(id)' = frames'[id][1].text
                /\ ~(first.ok /\ IsTextFramer(first.f)) =>
                       /\ frames' = frames
                       /\ textFrameText(id)' = << >>]_vars

\* SetTitle gave the first "TIT2" frame a new text.
C20_Witness ==
    /\ last.op = "SetTitle"
    /\ Tag_Frames("TIT2") # << >>
    /\ Tag_Frames("TIT2")[1].encoding = 3
    /\ textFrameText("TIT2") = StrEuro

\* SetGenre found a first "TCON" frame that is not text-shaped.
C20_WitnessNotText ==
    /\ last.op = "SetGenre"
    /\ Tag_Frames("TCON") # << >>
    /\ ~IsTextFramer(Tag_Frames("TCON")[1])

\* C21: SetLanguage returns an error and keeps the language when the
\* argument is not exactly 3 bytes long; with 3 bytes it replaces the
\* language; the frame's size, encoding, description and text and the
\* tag's size stay as they were in both cases.
C21_SetLanguage ==
    [][last'.op = "SetLanguage" =>
          \A s \in Slots, l \in Languages :
            SetLanguage(s, l) =>
              LET f == FrameAt(s)
                  g == frames'[s[1]][s[2]]
              IN  /\ GoLen(l) # 3 => last'.err /\ g.language = f.language
                  /\ GoLen(l) = 3 => ~last'.err /\ g.language = l
                  /\ g.size = f.size /\ g.encoding = f.encoding
                  /\ g.description = f.description /\ g.text = f.text
                  /\ Tag_Size' = Tag_Size]_vars

\* SetLanguage("deu") replaced the language "eng" of the parsed frame.
C21_Witness ==
    /\ last.op = "SetLanguage" /\ ~last.err
    /\ Tag_Frames("COMM") # << >>
    /\ Tag_Frames("COMM")[1].language = <<100, 101, 117>>

\* Bytes the string s takes under the encoding of index e.
EncodedLen(e, s) == Len(ConvertString(e, s).bytes)

\* C22: a successful SetEncoding on a described-text frame changes the
\* frame's size, and the sum of the tag's frame sizes, by the encoded length
\* of text and description under the new encoding minus their encoded
\* length under the old one.
C22_DescSetEncodingSize ==
    [][(last'.op = "SetEncoding" /\ ~last'.err) =>
          \A s \in Slots, e \in EncodingNames :
            (IsDescTextFrame(FrameAt(s)) /\ SetEncoding(s, e)) =>
              LET f == FrameAt(s)
                  g == frames'[s[1]][s[2]]
                  delta == (EncodedLen(g.encoding, f.text) - EncodedLen(f.encoding, f.text))
                           + (EncodedLen(g.encoding, f.description)
                              - EncodedLen(f.encoding, f.description))
              IN  /\ Frame_Size(g) - Frame_Size(f) = delta
                  /\ FrameSum' - FrameSum = delta]_vars

\* Where the bytes of the k-th frame of order[i] start in the data of
\* Tag.Bytes().
SlotOffset(order, i, k) ==
    SumMap({order[j] : j \in 1..(i - 1)}) + SumList(SubSeq(frames[order[i]], 1, k - 1))

\* C25 as stated: Tag.Bytes() is HeaderSize plus the sum over the frames of
\* frameHeaderSize + Size() bytes long.
C25_BytesLengthOriginal ==
    last.op = "Bytes" => Len(last.ret) = HeaderSize + FrameSum

\* C25 amended: Tag.Bytes() is the 10 header bytes followed by Tag.Size()
\* bytes: for each frame frameHeaderSize + Size() bytes that hold the
\* frame's header and payload bytes cut or zero-filled to that length
\* (frames of one identifier in insertion order), then zero bytes up to
\* Tag.Size().
C25_BytesLayout ==
    last.op = "Bytes" =>
        /\ Len(last.ret) = HeaderSize + Tag_Size
        /\ SubSeq(last.ret, 1, HeaderSize) = Head_Bytes
        /\ \E order \in MapOrders :
              \A i \in DOMAIN order :
                \A k \in DOMAIN frames[order[i]] :
                  LET f == frames[order[i]][k]
                      len == frameHeaderSize + Frame_Size(f)
                      at == HeaderSize + SlotOffset(order, i, k)
                  IN  SubSeq(last.ret, at + 1, at + len) = CopyInto(len, V23Bytes(f))
        /\ \A p \in (HeaderSize + FrameSum + 1)..Len(last.ret) : last.ret[p] = 0

\* Bytes() of a tag with two frames and padding left: it is longer than the
\* header and the frames.
C25_Witness ==
    /\ last.op = "Bytes"
    /\ NumFrames = 2
    /\ FrameSum < head.size
    /\ Len(last.ret) > HeaderSize + FrameSum

---------------------------------------------------------------------------
(* Parsing a tag from a file (src/unnamed/part_002:27-77, 224-242,         *)
(* src/id3v23.go:119-149).  b is the file, pos the bytes the reader has    *)
(* consumed.  io.ReadFull takes what is left when less than it asked for   *)
(* is left, and fails.                                                     *)

ID3 == <<73, 68, 51>>

NoHead == [version |-> 0, revision |-> 0, flags |-> 0, size |-> 0]

NoFrames == [id \in Ids |-> << >>]

\* A NewHeader that does not look at the first three bytes.
NewHeaderAnyMagic(b) ==
    IF Len(b) < HeaderSize THEN [ok |-> FALSE, head |-> NoHead, pos |-> Len(b)]
    ELSE LET size == synchint(SubSeq(b, 7, 10))
         IN  IF size.err THEN [ok |-> FALSE, head |-> NoHead, pos |-> HeaderSize]
             ELSE [ok |-> TRUE,
                   head |-> [version |-> b[4], revision |-> b[5], flags |-> b[6],
                             size |-> size.i],
                   pos |-> HeaderSize]

\* NewHeader
NewHeader(b) ==
    IF Len(b) < HeaderSize THEN [ok |-> FALSE, head |-> NoHead, pos |-> Len(b)]
    ELSE LET size == synchint(SubSeq(b, 7, 10))
         IN  IF SubSeq(b, 1, 3) # ID3 THEN [ok |-> FALSE, head |-> NoHead, pos |-> HeaderSize]
             ELSE IF size.err THEN [ok |-> FALSE, head |-> NoHead, pos |-> HeaderSize]
             ELSE [ok |-> TRUE,
                   head |-> [version |-> b[4], revision |-> b[5], flags |-> b[6],
                             size |-> size.i],
                   pos |-> HeaderSize]

\* The one value of a singleton set.
Only(S) == CHOOSE x \in S : TRUE

FrameRead(status, f, pos) == [status |-> status, f |-> f, pos |-> pos]

\* NewV23Frame
NewV23Frame(b, pos) ==
    IF Len(b) - pos < FrameHeaderSize THEN FrameRead("nil", ParsedNil.f, Len(b))
    ELSE LET data == SubSeq(b, pos + 1, pos + FrameHeaderSize)
             at == pos + FrameHeaderSize
             known == {id \in Ids : IdBytes[id] = SubSeq(data, 1, 4)}
             id == CHOOSE x \in known : TRUE
             size == normint(SubSeq(data, 5, 8))
             h == MkFrame("data", id, size.i,
                          [NoFrameFields EXCEPT !.statusFlags = data[9],
                                                !.formatFlags = data[10]])
             frameData == SubSeq(b, at + 1, at + size.i)
             t == V23FrameTypeMap[id]
             constructed == {CASE t = "text" -> ParseTextFrame(h, frameData)
                               [] t = "desc" -> ParseDescTextFrame(h, frameData)
                               [] t = "unsynch" -> ParseUnsynchTextFrame(h, frameData)
                               [] t = "image" -> ParseImageFrame(h, frameData)
                               [] t = "data" -> ParseDataFrame(h, frameData)}
         IN  IF known = {} THEN FrameRead("nil", ParsedNil.f, at)
             ELSE IF size.err THEN FrameRead("nil", ParsedNil.f, at)
             ELSE IF size.i < 0 THEN FrameRead("panic", ParsedNil.f, at)
             ELSE IF Len(b) - at < size.i THEN FrameRead("nil", ParsedNil.f, Len(b))
             ELSE Only({ FrameRead(frame.status, frame.f, at + size.i) :
                             frame \in constructed })

TagRead(status, h, frs, pad, pos) ==
    [status |-> status, head |-> h, frames |-> frs, padding |-> pad, pos |-> pos]

\* NewTag after its loop: t.padding = uint(size), then the reader is
\* advanced by int(t.padding) - t.frameHeaderSize bytes; make([]byte, n)
\* panics for a negative n.
NewTagAdvance(b, pos, size, h, frs) ==
    LET nAdvance == size - FrameHeaderSize
    IN  IF nAdvance < 0 THEN TagRead("panic", NoHead, NoFrames, 0, pos)
        ELSE IF Len(b) - pos < nAdvance THEN TagRead("nil", NoHead, NoFrames, 0, Len(b))
        ELSE TagRead("ok", h, frs, size, pos + nAdvance)

\* The loop of NewTag: for size > 0 { frame = t.frameConstructor(reader) ... }
RECURSIVE NewTagLoop(_, _, _, _, _)
NewTagLoop(b, pos, size, h, frs) ==
    IF size > 0
    THEN Only({ IF frame.status = "panic"
                THEN TagRead("panic", NoHead, NoFrames, 0, frame.pos)
                ELSE IF frame.status = "nil"
                THEN NewTagAdvance(b, frame.pos, size, h, frs)
                ELSE NewTagLoop(b, frame.pos,
                                size - (FrameHeaderSize + Frame_Size(frame.f)), h,
                                [frs EXCEPT ![frame.f.id] = Append(@, frame.f)]) :
                frame \in {NewV23Frame(b, pos)} })
    ELSE NewTagAdvance(b, pos, size, h, frs)

\* NewTag
NewTag(b) ==
    LET header == NewHeader(b)
    IN  IF ~header.ok THEN TagRead("nil", NoHead, NoFrames, 0, header.pos)
        ELSE NewTagLoop(b, header.pos, header.head.size, header.head, NoFrames)

---------------------------------------------------------------------------
(* The file (src/unnamed/part_005).                                        *)

\* os.File.ReadAt(buf, off) with len(buf) = n: the bytes it reads.
ReadAt(file, n, off) ==
    SubSeq(file, off + 1, IF off + n < Len(file) THEN off + n ELSE Len(file))

\* A WriteAt that cuts the file off after what it wrote.
WriteAtTruncating(file, b, off) == SubSeq(file, 1, off) \o b

\* os.File.WriteAt(b, off): the file afterwards.
WriteAt(file, b, off) ==
    IF b = << >> THEN file
    ELSE LET end == IF off + Len(b) > Len(file) THEN off + Len(b) ELSE Len(file)
         IN  [k \in 1..end |->
                 IF k > off /\ k <= off + Len(b) THEN b[k - off]
                 ELSE IF k <= Len(file) THEN file[k] ELSE 0]

\* The loop of shiftBytesBack; wr is wrBuf[:rn].
RECURSIVE shiftLoop(_, _, _, _, _, _)
shiftLoop(file, wr, rdOff, wrOff, end, offset) ==
    IF rdOff >= end THEN WriteAt(file, wr, wrOff)
    ELSE LET rd == ReadAt(file, offset, rdOff)
             n == IF rdOff + Len(rd) > end THEN end - rdOff ELSE Len(rd)
         IN  Only({ shiftLoop(fileNext, rdPart, rdNext, wrNext, end, offset) :
                        fileNext \in {WriteAt(file, wr, wrOff)},
                        rdPart \in {SubSeq(rd, 1, n)},
                        rdNext \in {rdOff + n},
                        wrNext \in {wrOff + Len(wr)} })

\* File.shiftBytesBack: the file afterwards.  wrOffset starts at offset.
shiftBytesBack(file, start, end, offset) ==
    LET wr == ReadAt(file, offset, start)
    IN  shiftLoop(file, wr, start + Len(wr), offset, end, offset)

\* File.Close on a v2 tag: the file afterwards, with the tag's frame map
\* ranged over in the given order.
File_Close(file, order) ==
    LET start == originalSize + HeaderSize
        end == Len(file)
        offset == Tag_Size - originalSize
        shifted == IF Tag_Size > originalSize
                   THEN shiftBytesBack(file, start, end, offset)
                   ELSE file
    IN  WriteAt(shifted, Tag_Bytes(order), 0)

---------------------------------------------------------------------------
(* SpecFile: a file is opened, its tag is changed, the file is closed and  *)
(* may be opened again.                                                    *)

\* Most times a file is opened.
MaxOpens == 2

\* The ten bytes of a version 2.3 tag header declaring size.
FileHeader(size) == ID3 \o <<3, 0, 0>> \o synchbytes(size)

\* The bytes of a frame with the given payload and no flags.
RawFrame(id, payload) == IdBytes[id] \o normbytes(Len(payload)) \o <<0, 0>> \o payload

\* "COMM": Latin-1, language "eng", description "Foo" with its terminator,
\* text "Bar".
CommFooBar == RawFrame("COMM", <<0, 101, 110, 103, 70, 111, 111, 0, 66, 97, 114>>)

\* "TIT2": Latin-1, text "A".
TitleA == RawFrame("TIT2", <<0, 65>>)

\* The audio after the tag: none, three bytes, twenty-five bytes.
Audios ==
    { << >>, <<255, 251, 144>>,
      <<255, 251, 144>> \o [k \in 1..22 |-> 100 + k] }

\* Padding bytes of a well-formed tag.
FilePaddings == {0, 10, 40}

WellFormed(frs, pad, audio) == FileHeader(Len(frs) + pad) \o frs \o Zeros(pad) \o audio

FileInput(class, bytes) == [class |-> class, bytes |-> bytes]

\* The files: well-formed tags, malformed headers, and tags whose second
\* frame does not parse.
FileInputs ==
    { FileInput("wellformed", WellFormed(frs, pad, audio)) :
          frs \in {CommFooBar, TitleA \o CommFooBar},
          pad \in FilePaddings, audio \in Audios }
    \cup { FileInput("wellformed", WellFormed(<< >>, pad, audio)) :
               pad \in FilePaddings \ {0}, audio \in Audios }
    \cup { FileInput("shortheader", SubSeq(WellFormed(TitleA, 10, << >>), 1, n)) :
               n \in {0, 7, 9} }
    \cup { FileInput("badmagic", <<73, 68, 52>> \o <<3, 0, 0>> \o synchbytes(22)
                                     \o TitleA \o Zeros(10)) }
    \cup { FileInput("highbit", ID3 \o <<3, 0, 0>> \o sz \o TitleA \o Zeros(10)) :
               sz \in {<<0, 0, 128, 22>>, <<128, 0, 0, 22>>, <<0, 0, 0, 150>>} }
    \cup { FileInput("unknownid", FileHeader(23) \o TitleA
                                      \o <<90, 90, 90, 90, 0, 0, 0, 1, 0, 0, 7>> \o audio) :
               audio \in Audios }
    \cup { FileInput("truncated", FileHeader(72) \o TitleA \o IdBytes["COMM"]
                                      \o normbytes(50) \o <<0, 0, 0, 101, 110>>) }
    \cup { FileInput("oversize", FileHeader(12) \o IdBytes["TIT2"] \o normbytes(4)
                                     \o <<0, 0, 0, 65>> \o <<255, 251, 144>>) }
    \cup { FileInput("undecodable", FileHeader(34) \o TitleA
                                        \o RawFrame("COMM", <<0, 101>>) \o Zeros(10)
                                        \o audio) :
               audio \in Audios }

\* Frames a caller builds and adds to the tag of a file.
FileBuiltFrames ==
    { NewUnsynchTextFrame("COMM", <<67, 111, 109, 109, 101, 110, 116>>, <<70, 111, 111>>),
      NewTextFrame("TIT2", StrAA) }

InitFile ==
    /\ \E in \in FileInputs : fdata = in.bytes /\ finput = in.class
    /\ fpc = "closed"
    /\ fdata0 = << >> /\ fpos = 0 /\ originalSize = 0 /\ fopens = 0
    /\ TagIdle
    /\ IntIdle
    /\ ScanIdle
    /\ EncIdle
    /\ ShiftIdle
    /\ CodecIdle

\* Open: the tag is parsed from the file and its size is noted.
Open ==
    /\ fpc \in {"closed", "saved"}
    /\ fopens < MaxOpens
    /\ \E t \in {NewTag(fdata)} :
           /\ head' = t.head
           /\ frames' = (IF t.status = "ok" THEN t.frames ELSE << >>)
           /\ padding' = t.padding
           /\ frameHeaderSize' = (IF t.status = "ok" THEN FrameHeaderSize ELSE 0)
           /\ fpc' = (IF t.status = "ok" THEN "open" ELSE t.status)
           /\ fpos' = t.pos
           /\ last' = Call("Open", t.status # "ok", NewHeader(fdata))
           /\ originalSize' = (IF t.status = "ok" THEN Tag_Size' ELSE 0)
    /\ hist' = NoHist
    /\ fdata0' = fdata
    /\ fopens' = fopens + 1
    /\ UNCHANGED <<fdata, finput>>

\* File.Close
Close ==
    /\ fpc = "open"
    /\ \E order \in MapOrders : fdata' = File_Close(fdata, order)
    /\ fpc' = "saved"
    /\ last' = Call("Close", FALSE, << >>)
    /\ hist' = NoHist
    /\ UNCHANGED <<head, frameHeaderSize, padding, frames>>
    /\ UNCHANGED <<fdata0, fpos, originalSize, fopens, finput>>

NextFile ==
    \/ Open /\ UNCHANGED <<intVars, scanVars, encVars, shiftVars, codecVars>>
    \/ /\ fpc = "open"
       /\ \E f \in FileBuiltFrames : AddFrame(f)
       /\ UNCHANGED <<intVars, scanVars, encVars, fileVars, shiftVars, codecVars>>
    \/ /\ fpc = "open"
       /\ \E s \in Slots, text \in Texts : SetText(s, text)
       /\ UNCHANGED <<intVars, scanVars, encVars, fileVars, shiftVars, codecVars>>
    \/ /\ fpc = "open"
       /\ \E id \in Ids : DeleteFrames(id)
       /\ UNCHANGED <<intVars, scanVars, encVars, fileVars, shiftVars, codecVars>>
    \/ Close /\ UNCHANGED <<intVars, scanVars, encVars, shiftVars, codecVars>>

SpecFile == InitFile /\ [][NextFile]_vars

---------------------------------------------------------------------------
(* Claims on parsing, serializing and saving.                              *)

\* The file has just been opened for the first time.
FirstOpened == fopens = 1 /\ last.op = "Open"

\* The size the header of the opened file declares, decoded digit by digit.
Declared0 ==
    fdata0[7] * Pow2(21) + fdata0[8] * Pow2(14) + fdata0[9] * Pow2(7) + fdata0[10]

\* C12: parsing a well-formed tag and serializing it with Tag.Bytes(),
\* with no mutation in between, gives the bytes of the tag as they were in
\* the input.
C12_ParseBytesRoundTrip ==
    (FirstOpened /\ finput = "wellformed") =>
        /\ fpc = "open"
        /\ \A order \in MapOrders :
               Tag_Bytes(order) = SubSeq(fdata0, 1, HeaderSize + Declared0)

\* The frame the comment round trip builds.
BuiltComment ==
    NewUnsynchTextFrame("COMM", <<67, 111, 109, 109, 101, 110, 116>>, <<70, 111, 111>>)

\* C13: a frame built with NewUnsynchTextFrame(ft, desc, text), added to a
\* tag with no frames, serialized and parsed back, is found under the same
\* identifier with Description() equal to desc.
C13_UnsynchRoundTrip ==
    [][(/\ fpc = "saved"
        /\ frames = [NoFrames EXCEPT !["COMM"] = <<BuiltComment>>]
        /\ head.size >= 2 * FrameHeaderSize + Frame_Size(BuiltComment)
        /\ Open)
       => /\ fpc' = "open"
          /\ frames'["COMM"] # << >>
          /\ frames'["COMM"][1].kind = "unsynch"
          /\ frames'["COMM"][1].description = BuiltComment.description]_vars

\* C14: when the tag has grown from total size T0 to T1 > T0, Close leaves
\* the audio bytes A that followed the tag at [T1, T1 + len(A)) and the new
\* serialized tag at [0, T1).
C14_GrowKeepsAudio ==
    [][(fpc' = "saved" /\ fopens = 1 /\ finput = "wellformed" /\ Tag_Size > originalSize /\ Close)
       => LET T0 == HeaderSize + originalSize
              T1 == HeaderSize + Tag_Size
              A == SubSeq(fdata, T0 + 1, Len(fdata))
          IN  /\ Len(fdata') >= T1 + Len(A)
              /\ SubSeq(fdata', T1 + 1, T1 + Len(A)) = A
              /\ \E order \in MapOrders : SubSeq(fdata', 1, T1) = Tag_Bytes(order)]_vars

C16_PaddingAndPosition ==
    (FirstOpened /\ finput = "wellformed") =>
        /\ fpc = "open"
        /\ padding = Declared0 - FrameSum
        /\ padding >= 0
        /\ fpos = HeaderSize + Declared0

\* The frame TitleA parses to.
ParsedTitleA ==
    MkFrame("text", "TIT2", 2, [NoFrameFields EXCEPT !.text = StrA])

\* C17: when a frame fails to parse (unknown identifier, payload larger
\* than what is left, or a payload that does not decode), the frames before
\* it are kept and the tag is returned with the rest of the declared size
\* as its padding.
C17_FailedFrameKeepsTag ==
    (FirstOpened /\ finput \in {"unknownid", "truncated", "oversize", "undecodable"}) =>
        /\ fpc = "open"
        /\ frames = [NoFrames EXCEPT !["TIT2"] = <<ParsedTitleA>>]
        /\ padding = Declared0 - (FrameHeaderSize + Frame_Size(ParsedTitleA))

\* Whether the bytes of the opened file start with a valid header.
ValidHeader0 ==
    /\ Len(fdata0) >= HeaderSize
    /\ SubSeq(fdata0, 1, 3) = ID3
    /\ \A k \in 7..10 : fdata0[k] < 128

\* C18: NewHeader gives no header, and NewTag no tag and no frames, when
\* fewer than 10 bytes are there, the first three are not "ID3" or a size
\* byte has its high bit set; otherwise the header's declared size is the
\* synch-safe value of the four size bytes.
C18_HeaderValidation ==
    last.op = "Open" =>
        /\ ~ValidHeader0 => ~last.ret.ok /\ fpc = "nil" /\ frames = << >>
        /\ ValidHeader0 => last.ret.ok /\ last.ret.head.size = Declared0
        /\ (ValidHeader0 /\ fpc = "open") => head.size = Declared0

\* A size byte with its high bit set was refused.
C18_Witness ==
    /\ last.op = "Open" /\ finput = "highbit"
    /\ fdata0[9] = 128
    /\ fpc = "nil" /\ ~last.ret.ok

---------------------------------------------------------------------------
(* SpecShift: File.shiftBytesBack one read or write at a time              *)
(* (src/unnamed/part_005:105-147).                                         *)

\* Longest file and largest offset.
MaxShiftLen == 7
MaxShiftOffset == 3

\* Files whose bytes all differ.
ShiftFiles == { [k \in 1..len |-> 100 + k] : len \in 0..MaxShiftLen }

\* The len file positions from off on, counted from 0.
Positions(off, len) == off..(off + len - 1)

\* ReadAt(buf, off): buf after the bytes got were read into it.
ReadInto(buf, got) == [k \in 1..Len(buf) |-> IF k <= Len(got) THEN got[k] ELSE buf[k]]

\* copy(dst, src)
copy(dst, src) == [k \in 1..Len(dst) |-> IF k <= Len(src) THEN src[k] ELSE dst[k]]

\* The region [start, end) of the call.
ShiftRegion == Positions(shargs.start, shargs.end - shargs.start)

InitShift ==
    /\ \E file \in ShiftFiles :
         \E start \in 0..Len(file) :
           \E end \in start..Len(file), offset \in 1..MaxShiftOffset :
             /\ shfile = file
             /\ shargs = [start |-> start, end |-> end, offset |-> offset]
    /\ shpc = "start"
    /\ wrBuf = << >> /\ rdBuf = << >> /\ rn = 0 /\ rdn = 0
    /\ rdOffset = 0 /\ wrOffset = 0 /\ shread = {} /\ shwrote = {}
    /\ IntIdle
    /\ ScanIdle
    /\ EncIdle
    /\ TagIdle
    /\ FileIdle
    /\ CodecIdle

\* The buffers are made and the first chunk is read into wrBuf.
ShiftStart ==
    /\ shpc = "start"
    /\ LET got == ReadAt(shfile, shargs.offset, shargs.start)
       IN  /\ wrBuf' = ReadInto(Zeros(shargs.offset), got)
           /\ rn' = Len(got)
           /\ rdOffset' = shargs.start + Len(got)
           /\ shread' = Positions(shargs.start, Len(got))
    /\ rdBuf' = Zeros(shargs.offset)
    /\ wrOffset' = shargs.offset
    /\ shpc' = "read"
    /\ UNCHANGED <<shfile, shargs, rdn, shwrote>>

\* A read that reports no byte.
ShiftReadNothing ==
    /\ shpc = "read"
    /\ rdOffset < shargs.end
    /\ rdn' = 0
    /\ shpc' = "write"
    /\ UNCHANGED <<shfile, shargs, wrBuf, rdBuf, rn, rdOffset, wrOffset, shread, shwrote>>

\* The loop's read: n, err := f.file.ReadAt(rdBuf, rdOffset), n cut at end.
ShiftRead ==
    /\ shpc = "read"
    /\ rdOffset < shargs.end
    /\ LET got == ReadAt(shfile, shargs.offset, rdOffset)
       IN  /\ rdBuf' = ReadInto(rdBuf, got)
           /\ rdn' = (IF rdOffset + Len(got) > shargs.end
                      THEN shargs.end - rdOffset ELSE Len(got))
           /\ shread' = shread \cup Positions(rdOffset, Len(got))
    /\ shpc' = "write"
    /\ UNCHANGED <<shfile, shargs, wrBuf, rn, rdOffset, wrOffset, shwrote>>

\* A write that lands where the next read will start.
ShiftWriteAtReadOffset ==
    /\ shpc = "write"
    /\ shfile' = WriteAt(shfile, SubSeq(wrBuf, 1, rn), rdOffset + rdn)
    /\ shwrote' = Positions(rdOffset + rdn, rn)
    /\ rdOffset' = rdOffset + rdn
    /\ wrOffset' = wrOffset + rn
    /\ wrBuf' = copy(wrBuf, rdBuf)
    /\ rn' = rdn
    /\ shpc' = "read"
    /\ UNCHANGED <<shargs, rdBuf, rdn, shread>>

\* The loop's write and the rest of its body.
ShiftWrite ==
    /\ shpc = "write"
    /\ shfile' = WriteAt(shfile, SubSeq(wrBuf, 1, rn), wrOffset)
    /\ shwrote' = Positions(wrOffset, rn)
    /\ rdOffset' = rdOffset + rdn
    /\ wrOffset' = wrOffset + rn
    /\ wrBuf' = copy(wrBuf, rdBuf)
    /\ rn' = rdn
    /\ shpc' = "read"
    /\ UNCHANGED <<shargs, rdBuf, rdn, shread>>

\* The loop is left and the last chunk is written.
ShiftLast ==
    /\ shpc = "read"
    /\ rdOffset >= shargs.end
    /\ shfile' = WriteAt(shfile, SubSeq(wrBuf, 1, rn), wrOffset)
    /\ shwrote' = Positions(wrOffset, rn)
    /\ shpc' = "done"
    /\ UNCHANGED <<shargs, wrBuf, rdBuf, rn, rdn, rdOffset, wrOffset, shread>>

NextShift ==
    \/ ShiftStart /\ UNCHANGED <<intVars, scanVars, encVars, tagVars, fileVars, codecVars>>
    \/ ShiftRead /\ UNCHANGED <<intVars, scanVars, encVars, tagVars, fileVars, codecVars>>
    \/ ShiftWrite /\ UNCHANGED <<intVars, scanVars, encVars, tagVars, fileVars, codecVars>>
    \/ ShiftLast /\ UNCHANGED <<intVars, scanVars, encVars, tagVars, fileVars, codecVars>>

SpecShift == InitShift /\ [][NextShift]_vars

\* The loop is scheduled until it is left: the call runs on one goroutine.
SpecShiftFair == SpecShift /\ WF_vars(NextShift)

\* C23: no write of shiftBytesBack touches a position of [start, end) whose
\* byte has not been read into a buffer before.
C23_WritesOnlyOverRead ==
    (shwrote \cap ShiftRegion) \subseteq shread

\* The region is longer than offset, its last chunk is shorter than offset,
\* and the last write landed inside the region.
C23_Witness ==
    /\ shpc = "done"
    /\ shargs.offset < shargs.end - shargs.start
    /\ (shargs.end - shargs.start) % shargs.offset # 0
    /\ shwrote \cap ShiftRegion # {}

\* C24: every pass of the loop moves the read offset forward and the call
\* reaches its end.
C24_ShiftTerminates ==
    /\ [][shpc = "write" => rdOffset' > rdOffset]_vars
    /\ <>(shpc = "done")

\* The call ended after three passes of the loop or more.
C24_Witness ==
    /\ shpc = "done"
    /\ shargs.end - shargs.start > 3 * shargs.offset
    /\ rdOffset = shargs.end

---------------------------------------------------------------------------
(* SpecReader: calls on one reader (src/unnamed/part_006).                 *)

\* Longest payload the reader is made over.
MaxReadLen == 5

\* Payloads whose bytes all differ.
ReaderDatas == { [k \in 1..len |-> 10 + k] : len \in 0..MaxReadLen }

InitReader ==
    /\ \E data \in ReaderDatas : rdr = newReader(data)
    /\ rdrLast = [op |-> "newReader", n |-> 0, index |-> 0, b |-> << >>, err |-> FALSE]
    /\ WriterIdle /\ ParseIdle /\ V2Idle
    /\ IntIdle
    /\ ScanIdle
    /\ EncIdle
    /\ TagIdle
    /\ FileIdle
    /\ ShiftIdle

\* The reader and the note of the call after a read that gave got.
ReaderCalled(op, n, got) ==
    /\ rdr' = got.r
    /\ rdrLast' = [op |-> op, n |-> n, index |-> rdr.index, b |-> got.b, err |-> got.err]

ReadNumBytes(n) == ReaderCalled("readNumBytes", n, readNumBytes(rdr, n))

ReadByte == ReaderCalled("readByte", 1, readByte(rdr))

Read(len) == ReaderCalled("read", len, read(rdr, len))

ReadRest == ReaderCalled("readRest", Len(rdr.data) - rdr.index, readRest(rdr))

NextReader ==
    \/ \E n \in -1..(MaxReadLen + 1) : ReadNumBytes(n) /\ UNCHANGED <<intVars, scanVars, encVars, tagVars, fileVars, shiftVars, writerVars, parseVars, v2Vars>>
    \/ ReadByte /\ UNCHANGED <<intVars, scanVars, encVars, tagVars, fileVars, shiftVars, writerVars, parseVars, v2Vars>>
    \/ \E len \in 0..(MaxReadLen + 1) : Read(len) /\ UNCHANGED <<intVars, scanVars, encVars, tagVars, fileVars, shiftVars, writerVars, parseVars, v2Vars>>
    \/ ReadRest /\ UNCHANGED <<intVars, scanVars, encVars, tagVars, fileVars, shiftVars, writerVars, parseVars, v2Vars>>

SpecReader == InitReader /\ [][NextReader]_vars

\* C26: readNumBytes(n) with n above what is left fails, returns no data
\* and keeps the index; with 0 < n <= what is left it returns the next n
\* bytes and moves the index by n; the index is always within
\* [0, len(data)].
C26_ReadNumBytes ==
    /\ rdr.index \in 0..Len(rdr.data)
    /\ rdrLast.op = "readNumBytes" =>
         LET remaining == Len(rdr.data) - rdrLast.index
         IN  /\ rdrLast.n > remaining =>
                  rdrLast.err /\ rdrLast.b = << >> /\ rdr.index = rdrLast.index
             /\ (0 < rdrLast.n /\ rdrLast.n <= remaining) =>
                  /\ ~rdrLast.err
                  /\ rdrLast.b = [k \in 1..rdrLast.n |-> rdr.data[rdrLast.index + k]]
                  /\ rdr.index = rdrLast.index + rdrLast.n

\* Two bytes were read from the middle of the payload, and a bigger read
\* would have failed.
C26_Witness ==
    /\ rdrLast.op = "readNumBytes" /\ ~rdrLast.err
    /\ rdrLast.index > 0 /\ rdrLast.n = 2
    /\ rdrLast.b = <<rdr.data[rdrLast.index + 1], rdr.data[rdrLast.index + 2]>>
    /\ rdr.index = Len(rdr.data)

---------------------------------------------------------------------------
(* SpecWriter: calls on one writer (src/v2/writer.go).                     *)

\* Longest destination buffer.
MaxWriteCap == 4

\* Arguments of write.
WriteArgs == { << >>, <<1>>, <<1, 2>>, <<1, 2, 3>> }

InitWriter ==
    /\ \E cap \in 0..MaxWriteCap : wtr = newWriter(cap)
    /\ wtrLast = [op |-> "newWriter", len |-> 0, space |-> 0, n |-> 0, err |-> FALSE]
    /\ ReaderIdle /\ ParseIdle /\ V2Idle
    /\ IntIdle
    /\ ScanIdle
    /\ EncIdle
    /\ TagIdle
    /\ FileIdle
    /\ ShiftIdle

\* The writer and the note of the call after a write of len bytes left w.
\* Each call returns its own error; the writer keeps none.
WriterCalled(op, len, w) ==
    /\ wtr' = [w EXCEPT !.err = FALSE]
    /\ wtrLast' = [op |-> op, len |-> len, space |-> wtr.cap - Len(wtr.out),
                   n |-> Len(w.out) - Len(wtr.out), err |-> w.err]

Write(b) == WriterCalled("write", Len(b), write(wtr, b))

WriteByte(b) == WriterCalled("writeByte", 1, writeByte(wtr, b))

WriteString(str, encoding) ==
    WriterCalled("writeString", Len(ConvertString(encoding, str).bytes),
                 writeString(wtr, str, encoding))

NextWriter ==
    \/ \E b \in WriteArgs : Write(b) /\ UNCHANGED <<intVars, scanVars, encVars, tagVars, fileVars, shiftVars, readerVars, parseVars, v2Vars>>
    \/ WriteByte(7) /\ UNCHANGED <<intVars, scanVars, encVars, tagVars, fileVars, shiftVars, readerVars, parseVars, v2Vars>>
    \/ \E str \in Texts, e \in {0, 1} : WriteString(str, e) /\ UNCHANGED <<intVars, scanVars, encVars, tagVars, fileVars, shiftVars, readerVars, parseVars, v2Vars>>

SpecWriter == InitWriter /\ [][NextWriter]_vars

\* C27: write(b) returns an error whenever less than len(b) bytes of the
\* destination buffer are left, and no call changes the length of the
\* destination buffer.
C27_WriteFailsWhenShort ==
    [][/\ Len(written(wtr')) = Len(written(wtr))
       /\ (wtrLast'.op = "write" /\ wtrLast'.space < wtrLast'.len) => wtrLast'.err]_vars

---------------------------------------------------------------------------
(* SpecParse: a parse constructor is handed a payload                      *)
(* (src/frame.go:633-832).                                                 *)

\* Most bytes after the payload's fixed leading fields.
MaxParseTail == 4

RECURSIVE SeqsUpTo(_, _)
SeqsUpTo(S, len) ==
    IF len = 0 THEN { << >> }
    ELSE LET shorter == SeqsUpTo(S, len - 1)
         IN  shorter \cup { Append(t, x) : t \in shorter, x \in S }

\* The fixed leading fields after the encoding byte: the language "eng" of
\* a language-text payload, nothing for the others.
LeadingFields(kind) == IF kind = "unsynch" THEN <<101, 110, 103>> ELSE << >>

\* The payload after its encoding byte and fixed leading fields.
PayloadTail(kind, data) == SubSeq(data, 2 + Len(LeadingFields(kind)), Len(data))

InitParse ==
    /\ pkind \in {"desc", "unsynch", "image"}
    /\ \E e \in DOMAIN EncodingMap, tail \in SeqsUpTo({0, 65}, MaxParseTail) :
         pdata = <<e>> \o LeadingFields(pkind) \o tail
    /\ ppc = "start"
    /\ pres = ""
    /\ ReaderIdle /\ WriterIdle /\ V2Idle
    /\ IntIdle
    /\ ScanIdle
    /\ EncIdle
    /\ TagIdle
    /\ FileIdle
    /\ ShiftIdle

\* The constructor of pkind is called with an empty frame head.
Parse ==
    /\ ppc = "start"
    /\ pres' = CASE pkind = "desc" -> ParseDescTextFrame(ParsedNil.f, pdata)
                 [] pkind = "unsynch" -> ParseUnsynchTextFrame(ParsedNil.f, pdata)
                 [] pkind = "image" -> ParseImageFrame(ParsedNil.f, pdata)
    /\ ppc' = "done"
    /\ UNCHANGED <<pkind, pdata>>

NextParse ==
    Parse /\ UNCHANGED <<intVars, scanVars, encVars, tagVars, fileVars, shiftVars, readerVars, writerVars, v2Vars>>

SpecParse == InitParse /\ [][NextParse]_vars

\* C28: a described-text, language-text or image payload with no
\* terminator after its fixed leading fields (here: no zero byte at all)
\* parses to no frame.
C28_NoTerminatorNoFrame ==
    (ppc = "done" /\ \A k \in DOMAIN PayloadTail(pkind, pdata) : PayloadTail(pkind, pdata)[k] # 0)
        => pres.status = "nil"

---------------------------------------------------------------------------
(* SpecV2: a frame under a short identifier is built, changed through its  *)
(* setters, written by V2Bytes and read back by NewV2Frame                 *)
(* (src/id3v22.go:10-120, src/id3v23.go:21-116).                           *)

V2FrameHeaderSize == 6

\* V2FrameTypeMap: key |-> the entry's id and constructor.
V2FrameTypeMap ==
    [BUF |-> [id |-> "BUF", constructor |-> "NewDataFrame"],
     CNT |-> [id |-> "CNT", constructor |-> "NewDataFrame"],
     COM |-> [id |-> "COM", constructor |-> "NewDataFrame"],
     CRA |-> [id |-> "CRA", constructor |-> "NewDataFrame"],
     CRM |-> [id |-> "CRM", constructor |-> "NewDataFrame"],
     ETC |-> [id |-> "ETC", constructor |-> "NewDataFrame"],
     EQU |-> [id |-> "EQU", constructor |-> "NewDataFrame"],
     GEO |-> [id |-> "GEO", constructor |-> "NewDataFrame"],
     IPL |-> [id |-> "IPL", constructor |-> "NewDataFrame"],
     LNK |-> [id |-> "LNK", constructor |-> "NewDataFrame"],
     MCI |-> [id |-> "MCI", constructor |-> "NewDataFrame"],
     MLL |-> [id |-> "MLL", constructor |-> "NewDataFrame"],
     PIC |-> [id |-> "PIC", constructor |-> "NewDataFrame"],
     POP |-> [id |-> "POP", constructor |-> "NewDataFrame"],
     REV |-> [id |-> "REV", constructor |-> "NewDataFrame"],
     RVA |-> [id |-> "RVA", constructor |-> "NewDataFrame"],
     SLT |-> [id |-> "SLT", constructor |-> "NewDataFrame"],
     STC |-> [id |-> "STC", constructor |-> "NewDataFrame"],
     TAL |-> [id |-> "TAL", constructor |-> "NewTextFrame"],
     TBP |-> [id |-> "TBP", constructor |-> "NewTextFrame"],
     TCM |-> [id |-> "TCM", constructor |-> "NewTextFrame"],
     TCO |-> [id |-> "TCO", constructor |-> "NewTextFrame"],
     TCR |-> [id |-> "TCR", constructor |-> "NewTextFrame"],
     TDA |-> [id |-> "TDA", constructor |-> "NewTextFrame"],
     TDY |-> [id |-> "TDY", constructor |-> "NewTextFrame"],
     TEN |-> [id |-> "TEN", constructor |-> "NewTextFrame"],
     TFT |-> [id |-> "TFT", constructor |-> "NewTextFrame"],
     TIM |-> [id |-> "TIM", constructor |-> "NewTextFrame"],
     TKE |-> [id |-> "TKE", constructor |-> "NewTextFrame"],
     TLA |-> [id |-> "TLA", constructor |-> "NewTextFrame"],
     TLE |-> [id |-> "TLE", constructor |-> "NewTextFrame"],
     TMT |-> [id |-> "TMT", constructor |-> "NewTextFrame"],
     TOA |-> [id |-> "TOA", constructor |-> "NewTextFrame"],
     TOF |-> [id |-> "TOF", constructor |-> "NewTextFrame"],
     TOL |-> [id |-> "TOL", constructor |-> "NewTextFrame"],
     TOR |-> [id |-> "TOR", constructor |-> "NewTextFrame"],
     TOT |-> [id |-> "TOT", constructor |-> "NewTextFrame"],
     TP1 |-> [id |-> "TP1", constructor |-> "NewTextFrame"],
     TP2 |-> [id |-> "TP2", constructor |-> "NewTextFrame"],
     TP3 |-> [id |-> "TP3", constructor |-> "NewTextFrame"],
     TP4 |-> [id |-> "TP4", constructor |-> "NewTextFrame"],
     TPA |-> [id |-> "TPA", constructor |-> "NewTextFrame"],
     TPB |-> [id |-> "TPB", constructor |-> "NewTextFrame"],
     TRC |-> [id |-> "TRC", constructor |-> "NewTextFrame"],
     TRD |-> [id |-> "TRD", constructor |-> "NewTextFrame"],
     TRK |-> [id |-> "TRK", constructor |-> "NewTextFrame"],
     TSI |-> [id |-> "TSI", constructor |-> "NewTextFrame"],
     TSS |-> [id |-> "TSS", constructor |-> "NewTextFrame"],
     TT1 |-> [id |-> "TT1", constructor |-> "NewTextFrame"],
     TT2 |-> [id |-> "TT2", constructor |-> "NewTextFrame"],
     TT3 |-> [id |-> "TT3", constructor |-> "NewTextFrame"],
     TXT |-> [id |-> "TXT", constructor |-> "NewTextFrame"],
     TXX |-> [id |-> "TXX", constructor |-> "NewDescTextFrame"],
     TYE |-> [id |-> "TYE", constructor |-> "NewTextFrame"],
     UFI |-> [id |-> "UFI", constructor |-> "NewDataFrame"],
     ULT |-> [id |-> "ULT", constructor |-> "NewDataFrame"],
     WAF |-> [id |-> "WAF", constructor |-> "NewDataFrame"],
     WAR |-> [id |-> "WAR", constructor |-> "NewDataFrame"],
     WAS |-> [id |-> "WAS", constructor |-> "NewDataFrame"],
     WCM |-> [id |-> "WCM", constructor |-> "NewDataFrame"],
     WCP |-> [id |-> "WCP", constructor |-> "NewDataFrame"],
     WPB |-> [id |-> "WPB", constructor |-> "NewDataFrame"],
     WXX |-> [id |-> "WXX", constructor |-> "NewDataFrame"]]

\* V23DeprecatedTypeMap
V23DeprecatedTypeMap ==
    [BUF |-> "RBUF", COM |-> "COMM", CRA |-> "AENC", EQU |-> "EQUA",
     ETC |-> "ETCO", GEO |-> "GEOB", MCI |-> "MCDI", MLL |-> "MLLT",
     PIC |-> "APIC", POP |-> "POPM", REV |-> "RVRB", RVA |-> "RVAD",
     SLT |-> "SYLT", STC |-> "SYTC", TAL |-> "TALB", TBP |-> "TBPM",
     TCM |-> "TCOM", TCO |-> "TCON", TCR |-> "TCOP", TDA |-> "TDAT",
     TDY |-> "TDLY", TEN |-> "TENC", TFT |-> "TFLT", TIM |-> "TIME",
     TKE |-> "TKEY", TLA |-> "TLAN", TLE |-> "TLEN", TMT |-> "TMED",
     TOA |-> "TOPE", TOF |-> "TOFN", TOL |-> "TOLY", TOR |-> "TORY",
     TOT |-> "TOAL", TP1 |-> "TPE1", TP2 |-> "TPE2", TP3 |-> "TPE3",
     TP4 |-> "TPE4", TPA |-> "TPOS", TPB |-> "TPUB", TRC |-> "TSRC",
     TRD |-> "TRDA", TRK |-> "TRCK", TSI |-> "TSIZ", TSS |-> "TSSE",
     TT1 |-> "TIT1", TT2 |-> "TIT2", TT3 |-> "TIT3", TXT |-> "TEXT",
     TXX |-> "TXXX", TYE |-> "TYER", UFI |-> "UFID", ULT |-> "USLT",
     WAF |-> "WOAF", WAR |-> "WOAR", WAS |-> "WOAS", WCM |-> "WCOM",
     WCP |-> "WCOP", WPB |-> "WPB", WXX |-> "WXXX"]

\* V23FrameTypeMap in full: key |-> the entry's id and constructor.
V23FrameTypeTable ==
    [AENC |-> [id |-> "AENC", constructor |-> "NewDataFrame"],
     APIC |-> [id |-> "APIC", constructor |-> "NewImageFrame"],
     COMM |-> [id |-> "COMM", constructor |-> "NewUnsynchTextFrame"],
     COMR |-> [id |-> "COMR", constructor |-> "NewDataFrame"],
     ENCR |-> [id |-> "ENCR", constructor |-> "NewDataFrame"],
     EQUA |-> [id |-> "EQUA", constructor |-> "NewDataFrame"],
     ETCO |-> [id |-> "ETCO", constructor |-> "NewDataFrame"],
     GEOB |-> [id |-> "GEOB", constructor |-> "NewDataFrame"],
     GRID |-> [id |-> "GRID", constructor |-> "NewDataFrame"],
     IPLS |-> [id |-> "IPLS", constructor |-> "NewDataFrame"],
     LINK |-> [id |-> "LINK", constructor |-> "NewDataFrame"],
     MCDI |-> [id |-> "MCDI", constructor |-> "NewDataFrame"],
     MLLT |-> [id |-> "MLLT", constructor |-> "NewDataFrame"],
     OWNE |-> [id |-> "OWNE", constructor |-> "NewDataFrame"],
     PRIV |-> [id |-> "PRIV", constructor |-> "NewDataFrame"],
     PCNT |-> [id |-> "PCNT", constructor |-> "NewDataFrame"],
     POPM |-> [id |-> "POPM", constructor |-> "NewDataFrame"],
     POSS |-> [id |-> "POSS", constructor |-> "NewDataFrame"],
     RBUF |-> [id |-> "RBUF", constructor |-> "NewDataFrame"],
     RVAD |-> [id |-> "RVAD", constructor |-> "NewDataFrame"],
     RVRB |-> [id |-> "RVRB", constructor |-> "NewDataFrame"],
     SYLT |-> [id |-> "SYLT", constructor |-> "NewDataFrame"],
     SYTC |-> [id |-> "SYTC", constructor |-> "NewDataFrame"],
     TALB |-> [id |-> "TALB", constructor |-> "NewTextFrame"],
     TBPM |-> [id |-> "TBPM", constructor |-> "NewTextFrame"],
     TCOM |-> [id |-> "TCOM", constructor |-> "NewTextFrame"],
     TCON |-> [id |-> "TCON", constructor |-> "NewTextFrame"],
     TCOP |-> [id |-> "TCOP", constructor |-> "NewTextFrame"],
     TDAT |-> [id |-> "TDAT", constructor |-> "NewTextFrame"],
     TDLY |-> [id |-> "TDLY", constructor |-> "NewTextFrame"],
     TENC |-> [id |-> "TENC", constructor |-> "NewTextFrame"],
     TEXT |-> [id |-> "TEXT", constructor |-> "NewTextFrame"],
     TFLT |-> [id |-> "TFLT", constructor |-> "NewTextFrame"],
     TIME |-> [id |-> "TIME", constructor |-> "NewTextFrame"],
     TIT1 |-> [id |-> "TIT1", constructor |-> "NewTextFrame"],
     TIT2 |-> [id |-> "TIT2", constructor |-> "NewTextFrame"],
     TIT3 |-> [id |-> "TIT3", constructor |-> "NewTextFrame"],
     TKEY |-> [id |-> "TKEY", constructor |-> "NewTextFrame"],
     TLAN |-> [id |-> "TLAN", constructor |-> "NewTextFrame"],
     TLEN |-> [id |-> "TLEN", constructor |-> "NewTextFrame"],
     TMED |-> [id |-> "TMED", constructor |-> "NewTextFrame"],
     TOAL |-> [id |-> "TOAL", constructor |-> "NewTextFrame"],
     TOFN |-> [id |-> "TOFN", constructor |-> "NewTextFrame"],
     TOLY |-> [id |-> "TOLY", constructor |-> "NewTextFrame"],
     TOPE |-> [id |-> "TOPE", constructor |-> "NewTextFrame"],
     TORY |-> [id |-> "TORY", constructor |-> "NewTextFrame"],
     TOWN |-> [id |-> "TOWN", constructor |-> "NewTextFrame"],
     TPE1 |-> [id |-> "TPE1", constructor |-> "NewTextFrame"],
     TPE2 |-> [id |-> "TPE2", constructor |-> "NewTextFrame"],
     TPE3 |-> [id |-> "TPE3", constructor |-> "NewTextFrame"],
     TPE4 |-> [id |-> "TPE4", constructor |-> "NewTextFrame"],
     TPOS |-> [id |-> "TPOS", constructor |-> "NewTextFrame"],
     TPUB |-> [id |-> "TPUB", constructor |-> "NewTextFrame"],
     TRCK |-> [id |-> "TRCK", constructor |-> "NewTextFrame"],
     TRDA |-> [id |-> "TRDA", constructor |-> "NewTextFrame"],
     TRSN |-> [id |-> "TRSN", constructor |-> "NewTextFrame"],
     TRSO |-> [id |-> "TRSO", constructor |-> "NewTextFrame"],
     TSIZ |-> [id |-> "TSIZ", constructor |-> "NewTextFrame"],
     TSRC |-> [id |-> "TSRC", constructor |-> "NewTextFrame"],
     TSSE |-> [id |-> "TSSE", constructor |-> "NewTextFrame"],
     TYER |-> [id |-> "TYER", constructor |-> "NewTextFrame"],
     TXXX |-> [id |-> "TXXX", constructor |-> "NewDescTextFrame"],
     UFID |-> [id |-> "UFID", constructor |-> "NewDataFrame"],
     USER |-> [id |-> "USER", constructor |-> "NewDataFrame"],
     USLT |-> [id |-> "USLT", constructor |-> "NewUnsynchTextFrame"],
     WCOM |-> [id |-> "WCOM", constructor |-> "NewDataFrame"],
     WCOP |-> [id |-> "WCOP", constructor |-> "NewDataFrame"],
     WOAF |-> [id |-> "WOAF", constructor |-> "NewDataFrame"],
     WOAR |-> [id |-> "WOAR", constructor |-> "NewDataFrame"],
     WOAS |-> [id |-> "WOAS", constructor |-> "NewDataFrame"],
     WORS |-> [id |-> "WORS", constructor |-> "NewDataFrame"],
     WPAY |-> [id |-> "WPAY", constructor |-> "NewDataFrame"],
     WPUB |-> [id |-> "WPUB", constructor |-> "NewDataFrame"],
     WXXX |-> [id |-> "WXXX", constructor |-> "NewDataFrame"]]

\* []byte(id) of the short identifiers.
V2IdBytes ==
    [BUF |-> <<66, 85, 70>>, CNT |-> <<67, 78, 84>>, COM |-> <<67, 79, 77>>,
     CRA |-> <<67, 82, 65>>, CRM |-> <<67, 82, 77>>, ETC |-> <<69, 84, 67>>,
     EQU |-> <<69, 81, 85>>, GEO |-> <<71, 69, 79>>, IPL |-> <<73, 80, 76>>,
     LNK |-> <<76, 78, 75>>, MCI |-> <<77, 67, 73>>, MLL |-> <<77, 76, 76>>,
     PIC |-> <<80, 73, 67>>, POP |-> <<80, 79, 80>>, REV |-> <<82, 69, 86>>,
     RVA |-> <<82, 86, 65>>, SLT |-> <<83, 76, 84>>, STC |-> <<83, 84, 67>>,
     TAL |-> <<84, 65, 76>>, TBP |-> <<84, 66, 80>>, TCM |-> <<84, 67, 77>>,
     TCO |-> <<84, 67, 79>>, TCR |-> <<84, 67, 82>>, TDA |-> <<84, 68, 65>>,
     TDY |-> <<84, 68, 89>>, TEN |-> <<84, 69, 78>>, TFT |-> <<84, 70, 84>>,
     TIM |-> <<84, 73, 77>>, TKE |-> <<84, 75, 69>>, TLA |-> <<84, 76, 65>>,
     TLE |-> <<84, 76, 69>>, TMT |-> <<84, 77, 84>>, TOA |-> <<84, 79, 65>>,
     TOF |-> <<84, 79, 70>>, TOL |-> <<84, 79, 76>>, TOR |-> <<84, 79, 82>>,
     TOT |-> <<84, 79, 84>>, TP1 |-> <<84, 80, 49>>, TP2 |-> <<84, 80, 50>>,
     TP3 |-> <<84, 80, 51>>, TP4 |-> <<84, 80, 52>>, TPA |-> <<84, 80, 65>>,
     TPB |-> <<84, 80, 66>>, TRC |-> <<84, 82, 67>>, TRD |-> <<84, 82, 68>>,
     TRK |-> <<84, 82, 75>>, TSI |-> <<84, 83, 73>>, TSS |-> <<84, 83, 83>>,
     TT1 |-> <<84, 84, 49>>, TT2 |-> <<84, 84, 50>>, TT3 |-> <<84, 84, 51>>,
     TXT |-> <<84, 88, 84>>, TXX |-> <<84, 88, 88>>, TYE |-> <<84, 89, 69>>,
     UFI |-> <<85, 70, 73>>, ULT |-> <<85, 76, 84>>, WAF |-> <<87, 65, 70>>,
     WAR |-> <<87, 65, 82>>, WAS |-> <<87, 65, 83>>, WCM |-> <<87, 67, 77>>,
     WCP |-> <<87, 67, 80>>, WPB |-> <<87, 80, 66>>, WXX |-> <<87, 88, 88>>]

\* Longest payload of a built frame: its size needs two bytes.
MaxV2Data == 258

\* Frames a caller builds under short identifiers.
V2Frames ==
    { NewDataFrame(id, data) : id \in {"UFI", "BUF"},
                               data \in Datas \cup {Zeros(MaxV2Data)} }
    \cup { NewTextFrame(id, text) : id \in {"TT2", "TAL"}, text \in Texts }
    \cup { NewDescTextFrame("TXX", desc, text) : desc \in Descriptions, text \in Texts }

\* V2Bytes
V2Bytes(f) ==
    CopyInto(3, V2IdBytes[f.id]) \o CopyInto(3, Tail(normbytes(Frame_Size(f))))
        \o Frame_Bytes(f)

\* NewV2Frame on a reader over b.  The table's constructors take a frame
\* head and the payload: they are the parse constructors.
NewV2Frame(b) ==
    IF Len(b) < V2FrameHeaderSize THEN ParsedNil
    ELSE \* the guard keeps SubSeq inside b
         Only({ IF known = {} THEN ParsedNil
                ELSE IF size.err THEN ParsedNil
                ELSE IF Len(b) - V2FrameHeaderSize < size.i THEN ParsedNil
                ELSE Only({ CASE t.constructor = "NewDataFrame" -> ParseDataFrame(h, frameData)
                              [] t.constructor = "NewTextFrame" -> ParseTextFrame(h, frameData)
                              [] t.constructor = "NewDescTextFrame" -> ParseDescTextFrame(h, frameData) :
                            t \in {V2FrameTypeMap[id] : id \in known},
                            h \in {MkFrame("data", V2FrameTypeMap[id].id, size.i, NoFrameFields) : id \in known},
                            frameData \in {SubSeq(b, V2FrameHeaderSize + 1,
                                                  V2FrameHeaderSize + size.i)} }) :
                known \in {{id \in DOMAIN V2FrameTypeMap : V2IdBytes[id] = SubSeq(b, 1, 3)}},
                size \in {normint(SubSeq(b, 4, 6))} })

InitV2 ==
    /\ v2frame \in V2Frames
    /\ v2pc = "built"
    /\ v2bytes = << >>
    /\ v2res = ""
    /\ ReaderIdle /\ WriterIdle /\ ParseIdle
    /\ IntIdle
    /\ ScanIdle
    /\ EncIdle
    /\ TagIdle
    /\ FileIdle
    /\ ShiftIdle

\* f.SetData(b) on a data frame.
V2SetData(b) ==
    /\ v2pc = "built"
    /\ IsDataFrame(v2frame)
    /\ v2frame' = DataFrame_SetData(v2frame, b).f
    /\ UNCHANGED <<v2pc, v2bytes, v2res>>

\* f.SetText(text) on a text frame.
V2SetText(text) ==
    /\ v2pc = "built"
    /\ IsTextFramer(v2frame)
    /\ v2frame' = TextFrame_SetText(v2frame, text).f
    /\ UNCHANGED <<v2pc, v2bytes, v2res>>

\* f.SetEncoding(encoding) on a text frame.
V2SetEncoding(encoding) ==
    /\ v2pc = "built"
    /\ IsTextFramer(v2frame)
    /\ v2frame' = IF IsDescTextFrame(v2frame)
                  THEN DescTextFrame_SetEncoding(v2frame, encoding).f
                  ELSE TextFrame_SetEncoding(v2frame, encoding).f
    /\ UNCHANGED <<v2pc, v2bytes, v2res>>

\* b := V2Bytes(f)
V2BytesCall ==
    /\ v2pc = "built"
    /\ v2bytes' = V2Bytes(v2frame)
    /\ v2pc' = "written"
    /\ UNCHANGED <<v2frame, v2res>>

\* NewV2Frame(bytes.NewReader(b))
NewV2FrameCall ==
    /\ v2pc = "written"
    /\ v2res' = NewV2Frame(v2bytes)
    /\ v2pc' = "read"
    /\ UNCHANGED <<v2frame, v2bytes>>

NextV2 ==
    \/ (\E b \in Datas : V2SetData(b)) /\ UNCHANGED <<intVars, scanVars, encVars, tagVars, fileVars, shiftVars, readerVars, writerVars, parseVars>>
    \/ (\E text \in Texts : V2SetText(text)) /\ UNCHANGED <<intVars, scanVars, encVars, tagVars, fileVars, shiftVars, readerVars, writerVars, parseVars>>
    \/ (\E encoding \in EncodingNames : V2SetEncoding(encoding)) /\ UNCHANGED <<intVars, scanVars, encVars, tagVars, fileVars, shiftVars, readerVars, writerVars, parseVars>>
    \/ V2BytesCall /\ UNCHANGED <<intVars, scanVars, encVars, tagVars, fileVars, shiftVars, readerVars, writerVars, parseVars>>
    \/ NewV2FrameCall /\ UNCHANGED <<intVars, scanVars, encVars, tagVars, fileVars, shiftVars, readerVars, writerVars, parseVars>>

SpecV2 == InitV2 /\ [][NextV2]_vars

\* C29: V2Bytes writes the frame's three identifier bytes, the three
\* low-order bytes of its size with the most significant first, then its
\* payload; NewV2Frame reading those bytes returns a frame with the same
\* identifier and size.
C29_V2RoundTrip ==
    v2pc = "read" =>
        /\ Len(v2bytes) >= V2FrameHeaderSize
        /\ SubSeq(v2bytes, 1, 3) = V2IdBytes[v2frame.id]
        /\ SubSeq(v2bytes, 4, 6) = << (Frame_Size(v2frame) \div 65536) % 256,
                                      (Frame_Size(v2frame) \div 256) % 256,
                                      Frame_Size(v2frame) % 256 >>
        /\ SubSeq(v2bytes, V2FrameHeaderSize + 1, Len(v2bytes)) = Frame_Bytes(v2frame)
        /\ v2res.status = "ok"
        /\ v2res.f.id = v2frame.id
        /\ Frame_Size(v2res.f) = Frame_Size(v2frame)

\* C30: whatever frame is built, written and read, every key of
\* V23DeprecatedTypeMap is a key of V2FrameTypeMap, every value it maps to
\* has four characters and is a key of V23FrameTypeMap, and in both frame
\* tables each entry's id is its key.
C30_TablesClosed ==
    v2pc \in {"built", "written", "read"} =>
        /\ \A k \in DOMAIN V23DeprecatedTypeMap :
             /\ k \in DOMAIN V2FrameTypeMap
             /\ Len(V23DeprecatedTypeMap[k]) = 4
             /\ V23DeprecatedTypeMap[k] \in DOMAIN V23FrameTypeTable
        /\ \A k \in DOMAIN V2FrameTypeMap : V2FrameTypeMap[k].id = k
        /\ \A k \in DOMAIN V23FrameTypeTable : V23FrameTypeTable[k].id = k

=============================================================================
